---- MODULE Spec2Model ----
(***************************************************************************)
(* Model of the registry image pruner of konflux-ci/image-controller       *)
(* (config/registry_image_pruner/image_pruner/prune_images.py) and of its  *)
(* notification resetter (config/repository_notification_resetter/         *)
(* notification_resetter/reset_notifications.py).  The two programs have   *)
(* variables of the same names (token, dry_run, repos, ...): the model     *)
(* holds them once, and the places of the resetter in pc are prefixed with *)
(* "reset_notifications.".                                                 *)
(*                                                                         *)
(* Tag names and manifest digests are sequences of one-character strings,  *)
(* so that the regular expression, endswith, removesuffix and replace of   *)
(* remove_tags are computed character by character.  The registry (Quay)   *)
(* is the environment: every HTTP request is answered with a status and a  *)
(* body drawn from small sets.  The variables calls, logs and listed are   *)
(* history variables: they record the manifest checks and deletes issued,  *)
(* the log lines written and the tags the registry listed, all for the     *)
(* repository at hand; repo_requests counts the repository listings,       *)
(* last_listing is the last listing request, page_requests counts the      *)
(* consecutive failed requests of one page of tags, and reports holds the  *)
(* requests and log lines of the passes of remove_tags that were run       *)
(* before the one at hand on the same snapshot.                            *)
(***************************************************************************)
EXTENDS Integers, Sequences, FiniteSets, TLC

VARIABLES
    token,                    \* os.getenv("QUAY_TOKEN")
    dry_run,                  \* args.dry_run
    past_days,                \* args.past_days
    time_range,               \* None, or Some([from_ts, to_ts])
    pc,                       \* the function the run is in
    exception,                \* NoException, or what was raised out of main
    processed_repos_counter,  \* itertools.count(): repositories started
    repo_next_page,           \* fetch_image_repos: next_page
    repos,                    \* the page of repositories yielded to main
    repo_i,                   \* process_repositories: index of the repository at hand
    tag_next_page,            \* get_quay_tags: next_page
    all_tags,                 \* get_quay_tags: all_tags
    retry_count,              \* get_quay_tags: retry_count
    tags_map,                 \* remove_tags: tags_map (insertion-ordered dict)
    manifests_checked,        \* remove_tags: manifests_checked (dict digest -> bool)
    tag_i,                    \* remove_tags: position of the loop in tags_map
    calls,                    \* history: manifest checks and deletes of the repository at hand
    logs,                     \* history: INFO log lines of the repository at hand
    listed,                   \* history: tags the registry listed for the repository at hand
    repo_requests,            \* history: repository-listing requests of the run
    last_listing,             \* history: None, or Some(the last listing request)
    page_requests,            \* history: requests of the page of tags that failed in a row
    reports,                  \* history: earlier passes of remove_tags over the snapshot
    repo_listing,             \* history: the repository-listing requests and their answers
    previous_checked,         \* history: manifests_checked of the repository before
    retry,                    \* reset_notifications.fetch_image_repos: retry
    all_notifications,        \* reset_notifications.process_repositories: all_notifications
    notification_i            \* reset_notifications.process_repositories: position of the loop

vars == <<token, dry_run, past_days, time_range, pc, exception, processed_repos_counter,
          repo_next_page, repos, repo_i, tag_next_page, all_tags, retry_count,
          tags_map, manifests_checked, tag_i, calls, logs, listed, repo_requests,
          last_listing, page_requests, reports, repo_listing, previous_checked,
          retry, all_notifications, notification_i>>

\* the variables of reset_notifications.py that prune_images.py has not
resetter_vars == <<retry, all_notifications, notification_i>>

\* Python's None, and a value that is not None
None == <<>>

Some(v) == <<v>>

Get(o) == o[1]

\* no exception raised
NoException == [type |-> "None", status |-> 0, where |-> "None"]

(***************************************************************************)
(* Bounds of the model.                                                    *)
(***************************************************************************)
\* tags of a snapshot handed to remove_tags
MaxSnapshot == 3
\* tags the registry holds in one repository of a run of main
MaxTags == 2
\* tags on one page of a tag listing
MaxPageTags == 2
\* repositories of the organization
MaxRepos == 2
\* notifications of a repository
MaxNotifications == 2
\* passes of remove_tags over one snapshot
MaxPasses == 2
\* pages of the repository listing
MaxRepoPages == 2

(***************************************************************************)
(* Strings.                                                                *)
(***************************************************************************)
HexChars == {"0", "1", "2", "3", "4", "5", "6", "7", "8", "9",
             "a", "b", "c", "d", "e", "f"}

Sha256Dash == <<"s", "h", "a", "2", "5", "6", "-">>

Sha256Colon == <<"s", "h", "a", "2", "5", "6", ":">>

DotSbom == <<".", "s", "b", "o", "m">>

DotAtt == <<".", "a", "t", "t">>

DotSrc == <<".", "s", "r", "c">>

DotSig == <<".", "s", "i", "g">>

DotDockerfile == <<".", "d", "o", "c", "k", "e", "r", "f", "i", "l", "e">>

\* the alternatives of the second group of tag_regex
RegexSuffixes == {DotSbom, DotAtt, DotSrc, DotSig, DotDockerfile}

\* str.startswith
StartsWith(s, prefix) ==
    /\ Len(s) >= Len(prefix)
    /\ SubSeq(s, 1, Len(prefix)) = prefix

\* str.endswith
EndsWith(s, suffix) ==
    /\ Len(s) >= Len(suffix)
    /\ SubSeq(s, Len(s) - Len(suffix) + 1, Len(s)) = suffix

\* str.removesuffix
RemoveSuffix(s, suffix) ==
    IF EndsWith(s, suffix) /\ Len(suffix) > 0
    THEN SubSeq(s, 1, Len(s) - Len(suffix))
    ELSE s

\* str.replace(old, new) for one-character old and new
Replace(s, old, new) ==
    [i \in 1..Len(s) |-> IF s[i] = old THEN new ELSE s[i]]

\* the suffixes with which tag_name matches
\*   ^sha256-([0-9a-f]+)(\.sbom|\.att|\.src|\.sig|\.dockerfile)$
MatchingSuffixes(tag_name) ==
    {suf \in RegexSuffixes :
        /\ StartsWith(tag_name, Sha256Dash)
        /\ EndsWith(tag_name, suf)
        /\ Len(tag_name) > Len(Sha256Dash) + Len(suf)
        /\ \A i \in (Len(Sha256Dash) + 1)..(Len(tag_name) - Len(suf)) :
               tag_name[i] \in HexChars}

\* tag_regex.match(tag_name) is not None
TagRegexMatches(tag_name) == MatchingSuffixes(tag_name) # {}

\* match.group(1), for a tag_name that matches
Group1(tag_name) ==
    LET suf == CHOOSE s \in MatchingSuffixes(tag_name) : TRUE
    IN  SubSeq(tag_name, Len(Sha256Dash) + 1, Len(tag_name) - Len(suf))

\* f"sha256:{match.group(1)}"
TargetDigest(tag_name) == Sha256Colon \o Group1(tag_name)

(***************************************************************************)
(* The registry's answers.                                                 *)
(***************************************************************************)
\* urlopen raises HTTPError for an answer that is not 2xx and returns the
\* response otherwise
UrlopenRaises(status) == status \notin 200..299

\* answers to GET .../manifest/<digest>
ManifestStatuses == {200, 204, 202, 404, 500}

\* answers to DELETE .../tag/<tag>
DeleteStatuses == {204, 202, 404, 500}

\* answers to GET .../tag/?limit=100&onlyActiveTags=True
TagListStatuses == {200, 202, 404, 500, 502, 504}

\* answers to GET /repository?namespace=...
RepoListStatuses == {200, 202, 404}

RETRY_LIMIT == 5

\* the script starts at time Now; tags are created at times 0..Now+1
Now == 2

\* values of QUAY_TOKEN: unset, empty, set
Tokens == {None, Some(""), Some("1234")}

DigestA == Sha256Colon \o <<"0", "a">>

DigestB == Sha256Colon \o <<"b", "1">>

DigestC == Sha256Colon \o <<"c", "2">>

NameLatest == <<"l", "a", "t", "e", "s", "t">>

NameFoo == <<"f", "o", "o">>

\* (name, manifest_digest) of the tags a repository of the registry may hold
RegistryTags ==
    { <<NameLatest, DigestA>>,
      <<Sha256Dash \o <<"0", "a">> \o DotSbom, DigestC>>,
      <<Sha256Dash \o <<"0", "a">> \o DotAtt, DigestC>>,
      <<Sha256Dash \o <<"b", "1">> \o DotSrc, DigestC>>,
      <<Sha256Dash \o <<"b", "1">> \o DotSig, DigestA>>,
      <<Sha256Dash \o <<"c", "2">> \o DotDockerfile, DigestC>>,
      <<Sha256Dash \o <<"z", "z">> \o DotSrc, DigestC>>,
      <<Sha256Dash \o <<"b", "1">> \o DotSrc \o DotSrc, DigestC>>,
      <<NameFoo, DigestB>>,
      <<NameFoo \o DotSrc, DigestC>> }

\* a tag of a listing answer: the keys of the JSON object that the code reads
Tag(name, digest, ts) == [name |-> name, manifest_digest |-> digest, start_ts |-> ts]

\* (name, manifest_digest) of the tags a repository holds in a run of main
RunRegistryTags ==
    { <<NameLatest, DigestA>>,
      <<Sha256Dash \o <<"0", "a">> \o DotAtt, DigestC>>,
      <<Sha256Dash \o <<"b", "1">> \o DotSbom, DigestC>>,
      <<NameFoo, DigestB>>,
      <<NameFoo \o DotSrc, DigestC>> }

\* creation times of listed tags; start_ts is read only under a time range
StartTimes(tr) == IF tr = None THEN {Now} ELSE 0..(Now + 1)

Names(tags) == {tags[i].name : i \in 1..Len(tags)}

\* the pages of at most n tags out of registry that the registry may answer
\* with, after it has listed the tags of already: tag names are unique in a
\* repository
TagPages(registry, already, n, tr) ==
    LET cand == {Tag(t[1], t[2], ts) : t \in registry, ts \in StartTimes(tr)}
        ok(p) == /\ \A i \in 1..Len(p) : p[i].name \notin Names(already)
                 /\ \A i, j \in 1..Len(p) : i # j => p[i].name # p[j].name
    IN  UNION {{p \in [1..k -> cand] : ok(p)} : k \in 0..n}

(***************************************************************************)
(* TimeRange.                                                              *)
(***************************************************************************)
\* TimeRange.past_days(days) with since = the start of the script
TimeRangePastDays(days) == Some([from_ts |-> Now, to_ts |-> Now - days])

(***************************************************************************)
(* Results of calls: a value returned, or an exception raised.             *)
(***************************************************************************)
Return(v) == [raised |-> NoException, value |-> v]

Raise(type, status, where) ==
    [raised |-> [type |-> type, status |-> status, where |-> where], value |-> None]

Call(op, arg, status) == [op |-> op, arg |-> arg, status |-> status]

Log(msg, tag) == [msg |-> msg, tag |-> tag]

\* a request of a page of repositories made with the query argument
\* next_page = asked, and its answer: the status and, of the JSON object,
\* "repositories" and "next_page"
RepoAnswer(asked, status, page, next_page) ==
    [asked |-> asked, status |-> status, repositories |-> page, next_page |-> next_page]

(***************************************************************************)
(* delete_image_tag and manifest_exists, given the registry's answer.      *)
(***************************************************************************)
\* faulty variant: every HTTPError of the delete is ignored
delete_image_tag_ignore_all(status) ==
    IF UrlopenRaises(status)
    THEN Return(None)
    ELSE IF status # 200 /\ status # 204
         THEN Raise("RuntimeError", status, "delete_image_tag")
         ELSE Return(None)

\* faulty variant: not-found is raised like any other HTTPError
delete_image_tag_raise_404(status) ==
    IF UrlopenRaises(status)
    THEN Raise("HTTPError", status, "delete_image_tag")
    ELSE IF status # 200 /\ status # 204
         THEN Raise("RuntimeError", status, "delete_image_tag")
         ELSE Return(None)

delete_image_tag(status) ==
    IF UrlopenRaises(status)
    THEN IF status # 404
         THEN Raise("HTTPError", status, "delete_image_tag")
         ELSE Return(None)
    ELSE IF status # 200 /\ status # 204
         THEN Raise("RuntimeError", status, "delete_image_tag")
         ELSE Return(None)

\* faulty variant: every HTTPError is taken for "not found"
manifest_exists_any_error(status) ==
    IF UrlopenRaises(status)
    THEN Return(FALSE)
    ELSE IF status # 200 /\ status # 204
         THEN Raise("RuntimeError", status, "manifest_exists")
         ELSE Return(TRUE)

\* faulty variant: only the status 200 is taken for "exists"
manifest_exists_only_200(status) ==
    IF UrlopenRaises(status)
    THEN IF status # 404
         THEN Raise("HTTPError", status, "manifest_exists")
         ELSE Return(FALSE)
    ELSE IF status # 200
         THEN Raise("RuntimeError", status, "manifest_exists")
         ELSE Return(TRUE)

manifest_exists(status) ==
    IF UrlopenRaises(status)
    THEN IF status # 404
         THEN Raise("HTTPError", status, "manifest_exists")
         ELSE Return(FALSE)
    ELSE IF status # 200 /\ status # 204
         THEN Raise("RuntimeError", status, "manifest_exists")
         ELSE Return(TRUE)

(***************************************************************************)
(* Dictionaries.  tags_map is a sequence of <<key, value>> in insertion    *)
(* order; manifests_checked is a set of <<key, value>>.                    *)
(***************************************************************************)
Keys(d) == {d[i][1] : i \in 1..Len(d)}

\* d[key], for a key of d
Lookup(d, key) == d[CHOOSE i \in 1..Len(d) : d[i][1] = key][2]

\* d[key] = value: a key already there keeps its position
Store(d, key, value) ==
    IF key \in Keys(d)
    THEN [i \in 1..Len(d) |-> IF d[i][1] = key THEN <<key, value>> ELSE d[i]]
    ELSE Append(d, <<key, value>>)

RECURSIVE TagsMapUpTo(_, _)
TagsMapUpTo(tags, n) ==
    IF n = 0 THEN <<>>
    ELSE Store(TagsMapUpTo(tags, n - 1), tags[n].name, tags[n].manifest_digest)

\* faulty variant: the dict is filled from the last tag to the first
TagsMapBackwards(tags) ==
    TagsMapUpTo([i \in 1..Len(tags) |-> tags[Len(tags) + 1 - i]], Len(tags))

\* {tag_info["name"]: tag_info["manifest_digest"] for tag_info in tags}
TagsMap(tags) == TagsMapUpTo(tags, Len(tags))

\* faulty variant: the keys of tags_map instead of its values
ImageDigestsKeys(tmap) == [i \in 1..Len(tmap) |-> tmap[i][1]]

\* [digest for _, digest in tags_map.items()]
ImageDigests(tmap) == [i \in 1..Len(tmap) |-> tmap[i][2]]

\* x in <list>
InList(x, list) == \E i \in 1..Len(list) : list[i] = x

\* faulty variant: manifests_checked is kept from one call of remove_tags to the next
NewManifestsCheckedKept(previous) == previous

\* "manifests_checked = {}" of remove_tags: a call starts with an empty
\* dict, whatever the call before left
NewManifestsChecked(previous) == {}

\* faulty variant: a cached False is taken for a missing entry
CheckedGetTruthy(checked, digest) ==
    IF \E e \in checked : e[1] = digest /\ e[2]
    THEN Some(TRUE)
    ELSE None

\* manifests_checked.get(digest)
CheckedGet(checked, digest) ==
    IF \E e \in checked : e[1] = digest
    THEN Some((CHOOSE e \in checked : e[1] = digest)[2])
    ELSE None

\* faulty variant: only the answer "exists" is stored
CheckedStoreOnlyTrue(checked, digest, value) ==
    IF value
    THEN {e \in checked : e[1] # digest} \cup {<<digest, value>>}
    ELSE checked

\* manifests_checked[digest] = value
CheckedStore(checked, digest, value) ==
    {e \in checked : e[1] # digest} \cup {<<digest, value>>}

(***************************************************************************)
(* remove_tags: the body of "for tag_name in tags_map" for one tag, given  *)
(* the registry's answers ms (to a manifest check) and ds (to a delete).   *)
(* The result holds the requests issued, the lines logged, the new         *)
(* manifests_checked and the exception raised, if any.                     *)
(***************************************************************************)
Outcome(c, l, checked, raised) ==
    [calls |-> c, logs |-> l, checked |-> checked, raised |-> raised]

\* faulty variant: the digest is looked up without its "sha256:" prefix
NotInImageDigestsNoPrefix(tag_name, tmap) ==
    ~InList(Group1(tag_name), ImageDigests(tmap))

\* f"sha256:{match.group(1)}" not in image_digests
NotInImageDigests(tag_name, tmap) ==
    ~InList(TargetDigest(tag_name), ImageDigests(tmap))

\* faulty variant: a tag whose binary tag is in tags_map is never deleted
ToDeleteBinaryMissing(tag_name, tmap) ==
    RemoveSuffix(tag_name, DotSrc) \notin Keys(tmap)

\* the value of to_delete of the branch of tags ending in .src
ToDelete(tag_name, tmap) ==
    LET binary_tag == RemoveSuffix(tag_name, DotSrc)
    IN  IF binary_tag \notin Keys(tmap)
        THEN TRUE
        ELSE LET manifest_digest == Lookup(tmap, binary_tag)
                 new_src_tag == Replace(manifest_digest, ":", "-") \o DotSrc
             IN  new_src_tag \in Keys(tmap)

\* faulty variant: a tag whose target is the digest of no tag of tags_map is
\* removed without the confirming manifest check
RemoveArtifactTagUnchecked(tag_name, tmap, checked, dry, ms, ds) ==
    IF NotInImageDigests(tag_name, tmap)
    THEN IF dry
         THEN Outcome(<<>>, <<Log("should be removed", tag_name)>>, checked, NoException)
         ELSE Outcome(<<Call("delete_image_tag", tag_name, ds)>>,
                      <<Log("Removing tag", tag_name)>>,
                      checked, delete_image_tag(ds).raised)
    ELSE Outcome(<<>>, <<>>, checked, NoException)

\* the branch of tags matching tag_regex
RemoveArtifactTag(tag_name, tmap, checked, dry, ms, ds) ==
    IF NotInImageDigests(tag_name, tmap)
    THEN LET target == TargetDigest(tag_name)
             cached == CheckedGet(checked, target)
             asked == cached = None
             existence == IF asked THEN manifest_exists(ms) ELSE Return(Get(cached))
             c1 == IF asked THEN <<Call("manifest_exists", target, ms)>> ELSE <<>>
         IN  IF existence.raised # NoException
             THEN Outcome(c1, <<>>, checked, existence.raised)
             ELSE LET checked1 == IF asked
                                  THEN CheckedStore(checked, target, existence.value)
                                  ELSE checked
                  IN  IF ~existence.value
                      THEN IF dry
                           THEN Outcome(c1, <<Log("should be removed", tag_name)>>,
                                        checked1, NoException)
                           ELSE Outcome(c1 \o <<Call("delete_image_tag", tag_name, ds)>>,
                                        <<Log("Removing tag", tag_name)>>,
                                        checked1, delete_image_tag(ds).raised)
                      ELSE Outcome(c1, <<>>, checked1, NoException)
    ELSE Outcome(<<>>, <<>>, checked, NoException)

\* faulty variant: a dry run does not report the deprecated tag
RemoveDeprecatedTagDryRunSilent(tag_name, tmap, checked, dry, ds) ==
    IF ToDelete(tag_name, tmap) /\ ~dry
    THEN Outcome(<<Call("delete_image_tag", tag_name, ds)>>,
                 <<Log("Removing deprecated tag", tag_name)>>,
                 checked, delete_image_tag(ds).raised)
    ELSE Outcome(<<>>, <<>>, checked, NoException)

\* faulty variant: the deprecated tag is deleted without a look at dry_run
RemoveDeprecatedTagAlways(tag_name, tmap, checked, dry, ds) ==
    IF ToDelete(tag_name, tmap)
    THEN Outcome(<<Call("delete_image_tag", tag_name, ds)>>,
                 <<Log("Removing deprecated tag", tag_name)>>,
                 checked, delete_image_tag(ds).raised)
    ELSE Outcome(<<>>, <<>>, checked, NoException)

\* faulty variant: the decision on the deprecated tag is kept in manifests_checked
RemoveDeprecatedTagCached(tag_name, tmap, checked, dry, ds) ==
    LET checked1 == CheckedStore(checked, Sha256Colon \o RemoveSuffix(tag_name, DotSrc),
                                 ~ToDelete(tag_name, tmap))
    IN  IF ToDelete(tag_name, tmap)
        THEN IF ~dry
             THEN Outcome(<<Call("delete_image_tag", tag_name, ds)>>,
                          <<Log("Removing deprecated tag", tag_name)>>,
                          checked1, delete_image_tag(ds).raised)
             ELSE Outcome(<<>>, <<Log("Removing deprecated tag", tag_name)>>,
                          checked1, NoException)
        ELSE Outcome(<<>>, <<>>, checked1, NoException)

\* the branch of tags ending in .src
RemoveDeprecatedTag(tag_name, tmap, checked, dry, ds) ==
    IF ToDelete(tag_name, tmap)
    THEN IF ~dry
         THEN Outcome(<<Call("delete_image_tag", tag_name, ds)>>,
                      <<Log("Removing deprecated tag", tag_name)>>,
                      checked, delete_image_tag(ds).raised)
         ELSE Outcome(<<>>, <<Log("Removing deprecated tag", tag_name)>>,
                      checked, NoException)
    ELSE Outcome(<<>>, <<>>, checked, NoException)

\* faulty variant: a tag of no known type is removed like a deprecated tag
RemoveTagUnknownRemoved(tag_name, tmap, checked, dry, ms, ds) ==
    IF TagRegexMatches(tag_name)
    THEN RemoveArtifactTag(tag_name, tmap, checked, dry, ms, ds)
    ELSE IF EndsWith(tag_name, DotSrc)
         THEN RemoveDeprecatedTag(tag_name, tmap, checked, dry, ds)
         ELSE IF ~dry
              THEN Outcome(<<Call("delete_image_tag", tag_name, ds)>>,
                           <<Log("Removing deprecated tag", tag_name)>>,
                           checked, delete_image_tag(ds).raised)
              ELSE Outcome(<<>>, <<Log("Removing deprecated tag", tag_name)>>,
                           checked, NoException)

RemoveTag(tag_name, tmap, checked, dry, ms, ds) ==
    IF TagRegexMatches(tag_name)
    THEN RemoveArtifactTag(tag_name, tmap, checked, dry, ms, ds)
    ELSE IF EndsWith(tag_name, DotSrc)
         THEN RemoveDeprecatedTag(tag_name, tmap, checked, dry, ds)
         ELSE Outcome(<<>>, <<>>, checked, NoException)

(***************************************************************************)
(* get_quay_tags: the scan of one page of tags.                            *)
(***************************************************************************)
\* faulty variant: only the newer end of the time range is looked at
InTimeRangeNoLowerEnd(tag, tr) ==
    tag.start_ts <= Get(tr).from_ts

\* to_ts <= tag["start_ts"] <= from_ts
InTimeRange(tag, tr) ==
    Get(tr).to_ts <= tag.start_ts /\ tag.start_ts <= Get(tr).from_ts

\* tag_info
TagInfo(tag) == [name |-> tag.name, manifest_digest |-> tag.manifest_digest]

\* the tags of the page the loop "for tag in tags" gets to before it breaks
RECURSIVE Scanned(_, _, _)
Scanned(tags, n, tr) ==
    IF n = 0 THEN <<>>
    ELSE LET before == Scanned(tags, n - 1, tr)
         IN  IF Len(before) < n - 1 THEN before
             ELSE IF tr = None \/ InTimeRange(tags[n], tr)
                  THEN Append(before, TagInfo(tags[n]))
                  ELSE before

\* the tags appended to all_tags, and stop_query, after the scan of a page
ScanPage(tags, tr) ==
    LET kept == Scanned(tags, Len(tags), tr)
    IN  [kept |-> kept, stop_query |-> Len(kept) < Len(tags)]

(***************************************************************************)
(* The run.                                                                *)
(***************************************************************************)
Init ==
    /\ token \in Tokens
    /\ dry_run \in BOOLEAN
    /\ past_days = None
    /\ time_range = None
    /\ pc = "main"
    /\ exception = NoException
    /\ processed_repos_counter = 0
    /\ repo_next_page = None
    /\ repos = <<>>
    /\ repo_i = 0
    /\ tag_next_page = None
    /\ all_tags = <<>>
    /\ retry_count = 0
    /\ tags_map = <<>>
    /\ manifests_checked = {}
    /\ tag_i = 0
    /\ calls = <<>>
    /\ logs = <<>>
    /\ listed = <<>>
    /\ repo_requests = 0
    /\ last_listing = None
    /\ page_requests = 0
    /\ reports = <<>>
    /\ repo_listing = <<>>
    /\ previous_checked = {}
    /\ retry = 0
    /\ all_notifications = <<>>
    /\ notification_i = 0

\* faulty variant: main catches the exception and ends the run as if it were done
PropagateCaught(e) ==
    /\ pc' = "done"
    /\ exception' = exception

\* an exception that nothing catches ends the run: neither main nor
\* process_repositories has a try block
Propagate(e) ==
    /\ pc' = "raised"
    /\ exception' = e

\* main, up to the call of fetch_image_repos
Main ==
    /\ pc = "main"
    /\ UNCHANGED <<resetter_vars, repo_listing, previous_checked>>
    /\ IF token = None \/ Get(token) = ""
       THEN /\ Propagate([type |-> "ValueError", status |-> 0, where |-> "main"])
            /\ UNCHANGED time_range
       ELSE /\ time_range' = IF past_days # None /\ Get(past_days) # 0
                            THEN TimeRangePastDays(Get(past_days))
                            ELSE None
            /\ pc' = "fetch_image_repos"
            /\ UNCHANGED exception
    /\ UNCHANGED <<token, dry_run, past_days, processed_repos_counter, repo_next_page, repos,
                   repo_i, tag_next_page, all_tags, retry_count, tags_map,
                   manifests_checked, tag_i, calls, logs, listed, repo_requests,
                   last_listing, page_requests, reports>>

\* fetch_image_repos: one request of a page of repositories.  The registry
\* answers with n repositories and the token np of the next page; next_page
\* is assigned when the generator is resumed and is read by nothing before.
FetchImageRepos ==
    /\ pc = "fetch_image_repos"
    /\ UNCHANGED <<resetter_vars, previous_checked>>
    /\ \E status \in RepoListStatuses,
          n \in 0..(MaxRepos - processed_repos_counter),
          np \in {None} \cup {Some(repo_requests + 2) : x \in
                                 IF repo_requests + 1 < MaxRepoPages THEN {1} ELSE {}} :
          /\ repo_requests' = repo_requests + 1
          /\ last_listing' = Some(Call("fetch_image_repos", repo_requests + 1, status))
          /\ repo_listing' = Append(repo_listing,
                 IF status = 200
                 THEN RepoAnswer(repo_next_page, status,
                                 [i \in 1..n |-> processed_repos_counter + i], np)
                 ELSE RepoAnswer(repo_next_page, status, <<>>, None))
          /\ IF UrlopenRaises(status)
             THEN /\ Propagate([type |-> "HTTPError", status |-> status,
                                where |-> "fetch_image_repos"])
                  /\ UNCHANGED <<repos, repo_i, repo_next_page>>
             ELSE IF status # 200
             THEN /\ Propagate([type |-> "RuntimeError", status |-> status,
                                where |-> "fetch_image_repos"])
                  /\ UNCHANGED <<repos, repo_i, repo_next_page>>
             ELSE IF n = 0
             THEN /\ pc' = "done"
                  /\ UNCHANGED <<exception, repos, repo_i, repo_next_page>>
             ELSE /\ repos' = [i \in 1..n |-> processed_repos_counter + i]
                  /\ repo_i' = 1
                  /\ repo_next_page' = np
                  /\ pc' = "process_repositories"
                  /\ UNCHANGED exception
    /\ UNCHANGED <<token, dry_run, past_days, time_range, processed_repos_counter,
                   tag_next_page, all_tags, retry_count, tags_map,
                   manifests_checked, tag_i, calls, logs, listed, page_requests,
                   reports>>

\* process_repositories: the next repository of the page; get_quay_tags
\* starts.  With keep, the history variable previous_checked records what
\* manifests_checked held when the repository before was left.
StartRepositoryKeeping(keep) ==
    /\ pc = "process_repositories"
    /\ UNCHANGED <<resetter_vars, repo_listing>>
    /\ repo_i <= Len(repos)
    /\ processed_repos_counter' = processed_repos_counter + 1
    /\ tag_next_page' = None
    /\ all_tags' = <<>>
    /\ retry_count' = 0
    /\ tags_map' = <<>>
    /\ manifests_checked' = NewManifestsChecked(manifests_checked)
    /\ previous_checked' = IF keep THEN manifests_checked ELSE previous_checked
    /\ tag_i' = 0
    /\ calls' = <<>>
    /\ logs' = <<>>
    /\ listed' = <<>>
    /\ last_listing' = None
    /\ page_requests' = 0
    /\ pc' = "get_quay_tags"
    /\ UNCHANGED <<token, dry_run, past_days, time_range, exception, repo_next_page, repos,
                   repo_i, repo_requests, reports>>

StartRepository == StartRepositoryKeeping(FALSE)

\* process_repositories returns; fetch_image_repos is resumed
EndOfPage ==
    /\ pc = "process_repositories"
    /\ UNCHANGED <<resetter_vars, repo_listing, previous_checked>>
    /\ repo_i > Len(repos)
    /\ pc' = IF repo_next_page = None THEN "done" ELSE "fetch_image_repos"
    /\ UNCHANGED <<token, dry_run, past_days, time_range, exception, processed_repos_counter,
                   repo_next_page, repos, repo_i, tag_next_page, all_tags,
                   retry_count, tags_map, manifests_checked, tag_i, calls, logs,
                   listed, repo_requests, last_listing, page_requests, reports>>

\* faulty variant: remove_tags empties the list of its caller
DelTagsClear(tags) == <<>>

\* "del tags" of remove_tags unbinds the parameter: the list of the caller,
\* all_tags of process_repositories, is as it was
DelTags(tags) == tags

\* get_quay_tags returns tags to process_repositories, which skips the
\* repository when there are none and calls remove_tags otherwise; the
\* locals of get_quay_tags are gone
TagsReturned(tags) ==
    /\ tag_next_page' = None
    /\ retry_count' = 0
    /\ IF tags = <<>>
       THEN /\ all_tags' = tags
            /\ repo_i' = repo_i + 1
            /\ pc' = "process_repositories"
            /\ UNCHANGED <<tags_map, manifests_checked, tag_i>>
       ELSE /\ tags_map' = TagsMap(tags)
            /\ all_tags' = DelTags(tags)
            /\ manifests_checked' = NewManifestsChecked(manifests_checked)
            /\ tag_i' = 1
            /\ pc' = "remove_tags"
            /\ UNCHANGED repo_i

\* the pages the registry may answer a listing request with: a page is read
\* only from an answer with status 200
AnswerPages(status) ==
    IF status = 200
    THEN TagPages(RunRegistryTags, listed,
                  IF MaxTags - Len(listed) < MaxPageTags
                  THEN MaxTags - Len(listed) ELSE MaxPageTags,
                  time_range)
    ELSE {<<>>}

\* faulty variant: not-found returns the tags of the pages read before
NotFoundResultCollected(collected) == collected

\* "return []" of the branch ex.status == 404
NotFoundResult(collected) == <<>>

\* get_quay_tags: one request of a page of tags.  The registry answers with
\* the number of the page asked for as "page" (1 for the first request).
\* The requests of the listing are not recorded in calls.
GetQuayTags ==
    /\ pc = "get_quay_tags"
    /\ UNCHANGED <<resetter_vars, repo_listing, previous_checked>>
    /\ \E status \in TagListStatuses :
       \E tags \in AnswerPages(status),
          additional \in IF status = 200 THEN BOOLEAN ELSE {FALSE} :
          LET page == IF tag_next_page = None THEN 1 ELSE Get(tag_next_page)
          IN
          /\ last_listing' = Some(Call("get_quay_tags", page, status))
          /\ page_requests' = IF status = 200 \/ status = 404 THEN 0
                              ELSE page_requests + 1
          /\ IF UrlopenRaises(status)
             THEN IF status = 404
                  THEN /\ TagsReturned(NotFoundResult(all_tags))
                       /\ UNCHANGED <<exception, listed>>
                  ELSE IF status = 502 \/ status = 504
                  THEN IF retry_count > RETRY_LIMIT
                       THEN /\ Propagate([type |-> "HTTPError", status |-> status,
                                          where |-> "get_quay_tags"])
                            /\ UNCHANGED <<repo_i, tag_next_page, all_tags, retry_count,
                                           tags_map, manifests_checked, tag_i, listed>>
                       ELSE /\ retry_count' = retry_count + 1
                            /\ UNCHANGED <<pc, exception, repo_i, tag_next_page, all_tags,
                                           tags_map, manifests_checked, tag_i, listed>>
                  ELSE /\ Propagate([type |-> "HTTPError", status |-> status,
                                     where |-> "get_quay_tags"])
                       /\ UNCHANGED <<repo_i, tag_next_page, all_tags, retry_count,
                                      tags_map, manifests_checked, tag_i, listed>>
             ELSE IF status # 200
             THEN /\ Propagate([type |-> "RuntimeError", status |-> status,
                                where |-> "get_quay_tags"])
                  /\ UNCHANGED <<repo_i, tag_next_page, all_tags, retry_count,
                                 tags_map, manifests_checked, tag_i, listed>>
             ELSE LET scan == ScanPage(tags, time_range)
                      collected == all_tags \o scan.kept
                  IN  /\ listed' = listed \o tags
                      /\ UNCHANGED exception
                      /\ IF scan.stop_query \/ tags = <<>> \/ ~additional
                         THEN TagsReturned(collected)
                         ELSE /\ tag_next_page' = Some(page + 1)
                              /\ retry_count' = 0
                              /\ all_tags' = collected
                              /\ UNCHANGED <<pc, repo_i, tags_map, manifests_checked, tag_i>>
    /\ UNCHANGED <<token, dry_run, past_days, time_range, processed_repos_counter,
                   repo_next_page, repos, calls, logs, repo_requests, reports>>

\* whether the requests of r include one of kind op
Issues(r, op) == \E i \in 1..Len(r.calls) : r.calls[i].op = op

\* faulty variant: process_repositories catches the exception and goes on with the
\* next repository
RemoveTagsRaisesCaught(e) ==
    /\ repo_i' = repo_i + 1
    /\ pc' = "process_repositories"
    /\ UNCHANGED <<exception, tag_i>>

\* an exception out of remove_tags: process_repositories does not catch it
RemoveTagsRaises(e) ==
    /\ Propagate(e)
    /\ UNCHANGED <<tag_i, repo_i>>

\* faulty variant: a tag is dropped from tags_map when it is deleted
TagsMapInLoopWithoutDeleted(tmap, c) ==
    SelectSeq(tmap, LAMBDA e : \A k \in 1..Len(c) :
                  ~(c[k].op = "delete_image_tag" /\ c[k].arg = e[1]))

\* tags_map, and with it image_digests, as the loop of remove_tags reads it
\* after the requests c: nothing assigns to them after lines 195-198
TagsMapInLoop(tmap, c) == tmap

\* the registry's manifests do not change between the passes over one
\* snapshot: a manifest check is answered as it was in the pass before
SameAnswer(call) ==
    \A p \in 1..Len(reports) : \A k \in 1..Len(reports[p].calls) :
        (reports[p].calls[k].op = call.op /\ reports[p].calls[k].arg = call.arg)
            => reports[p].calls[k].status = call.status

\* remove_tags: one iteration of "for tag_name in tags_map"
RemoveTagsIter ==
    /\ pc = "remove_tags"
    /\ UNCHANGED <<resetter_vars, repo_listing, previous_checked>>
    /\ tag_i <= Len(tags_map)
    /\ \E ms \in ManifestStatuses, ds \in DeleteStatuses :
          LET r == RemoveTag(tags_map[tag_i][1], TagsMapInLoop(tags_map, calls),
                             manifests_checked, dry_run, ms, ds)
          IN  \* the answer to a request that is not issued is not drawn
              /\ Issues(r, "manifest_exists") \/ ms = 200
              /\ Issues(r, "delete_image_tag") \/ ds = 204
              /\ \A k \in 1..Len(r.calls) : SameAnswer(r.calls[k])
              /\ calls' = calls \o r.calls
              /\ logs' = logs \o r.logs
              /\ manifests_checked' = r.checked
              /\ IF r.raised # NoException
                 THEN RemoveTagsRaises(r.raised)
                 ELSE /\ tag_i' = tag_i + 1
                      /\ UNCHANGED <<pc, exception, repo_i>>
    /\ UNCHANGED <<token, dry_run, past_days, time_range, processed_repos_counter,
                   repo_next_page, repos, tag_next_page, all_tags,
                   retry_count, tags_map, listed, repo_requests, last_listing,
                   page_requests, reports>>

\* remove_tags returns to process_repositories
RemoveTagsReturn ==
    /\ pc = "remove_tags"
    /\ UNCHANGED <<resetter_vars, repo_listing, previous_checked>>
    /\ tag_i > Len(tags_map)
    /\ repo_i' = repo_i + 1
    /\ pc' = "process_repositories"
    /\ UNCHANGED <<token, dry_run, past_days, time_range, exception, processed_repos_counter,
                   repo_next_page, repos, tag_next_page, all_tags, retry_count,
                   tags_map, manifests_checked, tag_i, calls, logs, listed,
                   repo_requests, last_listing, page_requests, reports>>

Next ==
    \/ Main
    \/ FetchImageRepos
    \/ StartRepository
    \/ EndOfPage
    \/ GetQuayTags
    \/ RemoveTagsIter
    \/ RemoveTagsReturn

Spec == Init /\ [][Next]_vars

(***************************************************************************)
(* reset_notifications.py.                                                 *)
(***************************************************************************)
\* the variables of prune_images.py that reset_notifications.py has not
pruner_vars == <<past_days, time_range, tag_next_page, all_tags, retry_count, tags_map,
                 manifests_checked, tag_i, listed, page_requests, reports,
                 previous_checked>>

\* answers to GET /repository?namespace=...
ResetRepoListStatuses == {200, 202, 404}

\* answers to GET .../notification/
NotificationListStatuses == {200, 202, 404}

\* answers to POST .../notification/<uuid>
ResetStatuses == {204, 201, 200, 400, 500}

\* "retry 5 times before giving up"
FetchRetries == 5

UuidFoo == <<"f", "o", "o">>

UuidBar == <<"b", "a", "r">>

\* a notification of a listing answer: "number_of_failures" may be missing
Notification(uuid, failures) == [uuid |-> uuid, number_of_failures |-> failures]

\* the notifications the registry may hold for a repository
RegistryNotifications ==
    {Notification(u, f) : u \in {UuidFoo, UuidBar}, f \in {None, Some(0), Some(2)}}

\* the lists of at most MaxNotifications notifications, each uuid once
NotificationLists ==
    UNION {{l \in [1..k -> RegistryNotifications] :
               \A i, j \in 1..k : i # j => l[i].uuid # l[j].uuid}
           : k \in 0..MaxNotifications}

NumberOfFailuresMissingCounts(notification) ==
    IF notification.number_of_failures = None
    THEN 1
    ELSE Get(notification.number_of_failures)

\* notification.get("number_of_failures", 0)
NumberOfFailures(notification) ==
    IF notification.number_of_failures = None
    THEN 0
    ELSE Get(notification.number_of_failures)

\* "No repository notification found"
NoNotificationFound ==
    <<"N", "o", " ", "r", "e", "p", "o", "s", "i", "t", "o", "r", "y", " ",
      "n", "o", "t", "i", "f", "i", "c", "a", "t", "i", "o", "n", " ",
      "f", "o", "u", "n", "d">>

\* the body of an error answer: a JSON object with or without "detail", or
\* something that is not JSON
JsonBody(detail) == [json |-> TRUE, detail |-> detail]

NotJsonBody == [json |-> FALSE, detail |-> None]

\* the bodies of the error answers to a reset
ErrorBodies ==
    { JsonBody(Some(NoNotificationFound \o <<" ", "f", "o", "r", ":", " ", "x">>)),
      JsonBody(Some(<<"N", "o", "t", " ", "f", "o", "u", "n", "d">>)),
      JsonBody(None),
      NotJsonBody }

\* json.loads(ex.read()).get("detail", "")
RspMessage(status, body) ==
    IF ~body.json
    THEN Raise("JSONDecodeError", status, "reset_notification")
    ELSE Return(IF body.detail = None THEN <<>> ELSE Get(body.detail))

\* the lines logged by a call, and the exception it raises
Effect(l, raised) == [logs |-> l, raised |-> raised]

reset_notification_not_found_fatal(uuid, status, body) ==
    IF UrlopenRaises(status)
    THEN Effect(<<>>, Raise("HTTPError", status, "reset_notification"))
    ELSE IF status \notin {201, 204}
         THEN Effect(<<Log("Failed to reset", uuid)>>, NoException)
         ELSE Effect(<<>>, NoException)

\* reset_notification, given the registry's answer
reset_notification(uuid, status, body) ==
    IF UrlopenRaises(status)
    THEN LET rsp_message == RspMessage(status, body)
         IN  IF rsp_message.raised # NoException
             THEN Effect(<<>>, rsp_message.raised)
             ELSE IF status = 400 /\ StartsWith(rsp_message.value, NoNotificationFound)
                  THEN Effect(<<Log("was not found", uuid)>>, NoException)
                  ELSE Effect(<<Log("Failed to reset", uuid)>>, NoException)
    ELSE IF status \notin {201, 204}
         THEN Effect(<<Log("Failed to reset", uuid)>>, NoException)
         ELSE Effect(<<>>, NoException)

ProcessNotificationIgnoringDryRun(notification, dry, status, body) ==
    IF NumberOfFailures(notification) > 0
    THEN LET r == reset_notification(notification.uuid, status, body)
         IN  [calls |-> <<Call("reset_notification", notification.uuid, status)>>,
              logs |-> IF r.raised # NoException
                       THEN r.logs
                       ELSE r.logs \o <<Log("was reset", notification.uuid)>>,
              raised |-> r.raised]
    ELSE [calls |-> <<>>,
          logs |-> <<Log("has no failures", notification.uuid)>>,
          raised |-> NoException]

\* the body of "for notification in all_notifications" for one notification
ProcessNotification(notification, dry, status, body) ==
    IF NumberOfFailures(notification) > 0
    THEN IF dry
         THEN [calls |-> <<>>,
               logs |-> <<Log("should be reset", notification.uuid)>>,
               raised |-> NoException]
         ELSE LET r == reset_notification(notification.uuid, status, body)
              IN  [calls |-> <<Call("reset_notification", notification.uuid, status)>>,
                   logs |-> IF r.raised # NoException
                            THEN r.logs
                            ELSE r.logs \o <<Log("was reset", notification.uuid)>>,
                   raised |-> r.raised]
    ELSE [calls |-> <<>>,
          logs |-> <<Log("has no failures", notification.uuid)>>,
          raised |-> NoException]

InitReset ==
    /\ token \in Tokens
    /\ dry_run \in BOOLEAN
    /\ past_days = None
    /\ time_range = None
    /\ pc = "reset_notifications.main"
    /\ exception = NoException
    /\ processed_repos_counter = 0
    /\ repo_next_page = None
    /\ repos = <<>>
    /\ repo_i = 0
    /\ tag_next_page = None
    /\ all_tags = <<>>
    /\ retry_count = 0
    /\ tags_map = <<>>
    /\ manifests_checked = {}
    /\ tag_i = 0
    /\ calls = <<>>
    /\ logs = <<>>
    /\ listed = <<>>
    /\ repo_requests = 0
    /\ last_listing = None
    /\ page_requests = 0
    /\ reports = <<>>
    /\ repo_listing = <<>>
    /\ previous_checked = {}
    /\ retry = 0
    /\ all_notifications = <<>>
    /\ notification_i = 0

NotTokenOnlyUnset(t) == t = None

\* "not token": QUAY_TOKEN is unset or empty
NotToken(t) == t = None \/ Get(t) = ""

AfterYieldStops(next_page) == "done"

\* fetch_image_repos is resumed after a yield: "if (next_page := ...) is None"
AfterYield(next_page) ==
    IF next_page = None THEN "done" ELSE "reset_notifications.fetch_image_repos"

\* main, up to the call of fetch_image_repos
ResetMain ==
    /\ pc = "reset_notifications.main"
    /\ IF NotToken(token)
       THEN Propagate([type |-> "ValueError", status |-> 0,
                       where |-> "reset_notifications.main"])
       ELSE /\ pc' = "reset_notifications.fetch_image_repos"
            /\ UNCHANGED exception
    /\ UNCHANGED <<token, dry_run, processed_repos_counter, repo_next_page, repos, repo_i,
                   calls, logs, repo_requests, last_listing, repo_listing,
                   resetter_vars, pruner_vars>>

\* fetch_image_repos: one request of a page of repositories.  HTTPError
\* cannot be constructed from resp.reason alone: for an answer that is 2xx
\* and not 200, "raise HTTPError(resp.reason)" raises TypeError, which the
\* except clause does not catch.
ResetFetchImageRepos ==
    /\ pc = "reset_notifications.fetch_image_repos"
    /\ \E status \in ResetRepoListStatuses,
          n \in 0..(MaxRepos - processed_repos_counter),
          np \in {None} \cup {Some(repo_requests + 2) : x \in
                                 IF Len(SelectSeq(repo_listing, LAMBDA a : a.status = 200)) + 1
                                        < MaxRepoPages
                                 THEN {1} ELSE {}} :
          /\ repo_requests' = repo_requests + 1
          /\ last_listing' = Some(Call("fetch_image_repos", repo_requests + 1, status))
          /\ repo_listing' = Append(repo_listing,
                 IF status = 200
                 THEN RepoAnswer(repo_next_page, status,
                                 [i \in 1..n |-> processed_repos_counter + i], np)
                 ELSE RepoAnswer(repo_next_page, status, <<>>, None))
          /\ IF UrlopenRaises(status)
             THEN IF retry < FetchRetries
                  THEN /\ retry' = retry + 1
                       /\ UNCHANGED <<pc, exception, repos, repo_i, repo_next_page>>
                  ELSE /\ Propagate([type |-> "RuntimeError", status |-> status,
                                     where |-> "fetch_image_repos"])
                       /\ UNCHANGED <<retry, repos, repo_i, repo_next_page>>
             ELSE IF status # 200
             THEN /\ Propagate([type |-> "TypeError", status |-> status,
                                where |-> "fetch_image_repos"])
                  /\ UNCHANGED <<retry, repos, repo_i, repo_next_page>>
             ELSE IF n = 0
             THEN /\ pc' = "done"
                  /\ UNCHANGED <<exception, retry, repos, repo_i, repo_next_page>>
             ELSE /\ repos' = [i \in 1..n |-> processed_repos_counter + i]
                  /\ repo_i' = 1
                  /\ repo_next_page' = np
                  /\ pc' = "reset_notifications.process_repositories"
                  /\ UNCHANGED <<exception, retry>>
    /\ UNCHANGED <<token, dry_run, processed_repos_counter, calls, logs,
                   all_notifications, notification_i, pruner_vars>>

\* process_repositories: the next repository of the page;
\* get_quay_notifications starts
ResetStartRepository ==
    /\ pc = "reset_notifications.process_repositories"
    /\ repo_i <= Len(repos)
    /\ processed_repos_counter' = processed_repos_counter + 1
    /\ all_notifications' = <<>>
    /\ notification_i' = 0
    /\ calls' = <<>>
    /\ logs' = <<>>
    /\ last_listing' = None
    /\ pc' = "get_quay_notifications"
    /\ UNCHANGED <<token, dry_run, exception, repo_next_page, repos, repo_i,
                   repo_requests, repo_listing, retry, pruner_vars>>

\* process_repositories returns; fetch_image_repos is resumed
ResetEndOfPage ==
    /\ pc = "reset_notifications.process_repositories"
    /\ repo_i > Len(repos)
    /\ pc' = AfterYield(repo_next_page)
    /\ UNCHANGED <<token, dry_run, exception, processed_repos_counter, repo_next_page,
                   repos, repo_i, calls, logs, repo_requests, last_listing,
                   repo_listing, resetter_vars, pruner_vars>>

\* get_quay_notifications: the request of the notifications of the
\* repository, and the test "if not all_notifications" of its caller
GetQuayNotifications ==
    /\ pc = "get_quay_notifications"
    /\ \E status \in NotificationListStatuses :
       \E answered \in IF status = 200 THEN NotificationLists ELSE {<<>>} :
          /\ last_listing' = Some(Call("get_quay_notifications", repos[repo_i], status))
          /\ IF UrlopenRaises(status)
             THEN /\ Propagate([type |-> "HTTPError", status |-> status,
                                where |-> "get_quay_notifications"])
                  /\ UNCHANGED <<all_notifications, notification_i, repo_i>>
             ELSE /\ all_notifications' = answered
                  /\ UNCHANGED exception
                  /\ IF answered = <<>>
                     THEN /\ repo_i' = repo_i + 1
                          /\ pc' = "reset_notifications.process_repositories"
                          /\ UNCHANGED notification_i
                     ELSE /\ notification_i' = 1
                          /\ pc' = "process_notifications"
                          /\ UNCHANGED repo_i
    /\ UNCHANGED <<token, dry_run, processed_repos_counter, repo_next_page, repos,
                   calls, logs, repo_requests, repo_listing, retry, pruner_vars>>

\* process_repositories: one iteration of "for notification in all_notifications"
ProcessNotifications ==
    /\ pc = "process_notifications"
    /\ notification_i <= Len(all_notifications)
    /\ \E status \in ResetStatuses :
       \E body \in IF UrlopenRaises(status) THEN ErrorBodies ELSE {JsonBody(None)} :
          LET r == ProcessNotification(all_notifications[notification_i], dry_run,
                                       status, body)
          IN  \* the answer to a request that is not issued is not drawn
              /\ r.calls # <<>> \/ status = 204
              /\ calls' = calls \o r.calls
              /\ logs' = logs \o r.logs
              /\ IF r.raised # NoException
                 THEN /\ Propagate(r.raised)
                      /\ UNCHANGED notification_i
                 ELSE /\ notification_i' = notification_i + 1
                      /\ UNCHANGED <<pc, exception>>
    /\ UNCHANGED <<token, dry_run, processed_repos_counter, repo_next_page, repos, repo_i,
                   repo_requests, last_listing, repo_listing, retry,
                   all_notifications, pruner_vars>>

\* the loop over the notifications is over: the next repository
ProcessNotificationsDone ==
    /\ pc = "process_notifications"
    /\ notification_i > Len(all_notifications)
    /\ repo_i' = repo_i + 1
    /\ pc' = "reset_notifications.process_repositories"
    /\ UNCHANGED <<token, dry_run, exception, processed_repos_counter, repo_next_page,
                   repos, calls, logs, repo_requests, last_listing, repo_listing,
                   resetter_vars, pruner_vars>>

NextReset ==
    \/ ResetMain
    \/ ResetFetchImageRepos
    \/ ResetStartRepository
    \/ ResetEndOfPage
    \/ GetQuayNotifications
    \/ ProcessNotifications
    \/ ProcessNotificationsDone

SpecReset == InitReset /\ [][NextReset]_vars

(***************************************************************************)
(* Either program is run.                                                  *)
(***************************************************************************)
InitPrograms == Init \/ InitReset

NextPrograms == Next \/ NextReset

SpecPrograms == InitPrograms /\ [][NextPrograms]_vars

(***************************************************************************)
(* One pass of remove_tags: process_repositories has called remove_tags    *)
(* with the tags of the first repository of a run, any snapshot of one to  *)
(* MaxSnapshot tags of RegistryTags.                                       *)
(***************************************************************************)
InitPass ==
    /\ token = Some("1234")
    /\ dry_run \in BOOLEAN
    /\ past_days = None
    /\ time_range = None
    /\ pc = "remove_tags"
    /\ exception = NoException
    /\ processed_repos_counter = 1
    /\ repo_next_page = None
    /\ repos = <<1>>
    /\ repo_i = 1
    /\ tag_next_page = None
    /\ listed \in TagPages(RegistryTags, <<>>, MaxSnapshot, None) \ {<<>>}
    /\ all_tags = DelTags([i \in 1..Len(listed) |-> TagInfo(listed[i])])
    /\ retry_count = 0
    /\ tags_map = TagsMap([i \in 1..Len(listed) |-> TagInfo(listed[i])])
    /\ manifests_checked = {}
    /\ tag_i = 1
    /\ calls = <<>>
    /\ logs = <<>>
    /\ repo_requests = 1
    /\ last_listing = Some(Call("get_quay_tags", 1, 200))
    /\ page_requests = 0
    /\ reports = <<>>
    /\ repo_listing = <<RepoAnswer(None, 200, <<1>>, None)>>
    /\ previous_checked = {}
    /\ retry = 0
    /\ all_notifications = <<>>
    /\ notification_i = 0

NextPass ==
    \/ RemoveTagsIter
    \/ RemoveTagsReturn

SpecPass == InitPass /\ [][NextPass]_vars

(***************************************************************************)
(* The repositories of one page: fetch_image_repos has yielded a page of   *)
(* two repositories to main, which calls process_repositories.  The        *)
(* history variable previous_checked is recorded.                          *)
(***************************************************************************)
InitRepos ==
    /\ token = Some("1234")
    /\ dry_run \in BOOLEAN
    /\ past_days = None
    /\ time_range = None
    /\ pc = "process_repositories"
    /\ exception = NoException
    /\ processed_repos_counter = 0
    /\ repo_next_page = None
    /\ repos = <<1, 2>>
    /\ repo_i = 1
    /\ tag_next_page = None
    /\ all_tags = <<>>
    /\ retry_count = 0
    /\ tags_map = <<>>
    /\ manifests_checked = {}
    /\ tag_i = 0
    /\ calls = <<>>
    /\ logs = <<>>
    /\ listed = <<>>
    /\ repo_requests = 1
    /\ last_listing = Some(Call("fetch_image_repos", 1, 200))
    /\ page_requests = 0
    /\ reports = <<>>
    /\ repo_listing = <<RepoAnswer(None, 200, <<1, 2>>, None)>>
    /\ previous_checked = {}
    /\ retry = 0
    /\ all_notifications = <<>>
    /\ notification_i = 0

StartRepositoryRecorded == StartRepositoryKeeping(TRUE)

NextRepos ==
    \/ StartRepositoryRecorded
    \/ GetQuayTags
    \/ RemoveTagsIter
    \/ RemoveTagsReturn
    \/ EndOfPage

SpecRepos == InitRepos /\ [][NextRepos]_vars

(***************************************************************************)
(* Passes of remove_tags in dry-run mode over one snapshot: remove_tags is *)
(* called again with the tags it was called with, while the manifests of   *)
(* the registry stay as they are.                                          *)
(***************************************************************************)
InitTwice ==
    /\ InitPass
    /\ dry_run

\* remove_tags is called once more with all_tags: tags_map, manifests_checked
\* and the loop are set up anew
RemoveTagsAgain ==
    /\ pc = "remove_tags"
    /\ UNCHANGED <<resetter_vars, repo_listing, previous_checked>>
    /\ tag_i > Len(tags_map)
    /\ Len(reports) < MaxPasses - 1
    /\ reports' = Append(reports, [calls |-> calls, logs |-> logs])
    /\ tags_map' = TagsMap(all_tags)
    /\ all_tags' = DelTags(all_tags)
    /\ manifests_checked' = {}
    /\ tag_i' = 1
    /\ calls' = <<>>
    /\ logs' = <<>>
    /\ UNCHANGED <<token, dry_run, past_days, time_range, pc, exception,
                   processed_repos_counter, repo_next_page, repos, repo_i,
                   tag_next_page, retry_count, listed, repo_requests, last_listing,
                   page_requests>>

NextTwice ==
    \/ RemoveTagsIter
    \/ RemoveTagsAgain
    \/ RemoveTagsReturn

SpecTwice == InitTwice /\ [][NextTwice]_vars

(***************************************************************************)
(* The two modes on one snapshot: remove_tags is called with dry_run=True  *)
(* and then with dry_run=False on the same tags, and the registry answers  *)
(* the manifest checks of the second pass as it answered those of the      *)
(* first.                                                                  *)
(***************************************************************************)
InitModes ==
    /\ InitPass
    /\ dry_run

\* remove_tags is called with the same tags in execute mode
RemoveTagsInExecuteMode ==
    /\ pc = "remove_tags"
    /\ UNCHANGED <<resetter_vars, repo_listing, previous_checked>>
    /\ tag_i > Len(tags_map)
    /\ dry_run
    /\ reports = <<>>
    /\ reports' = <<[calls |-> calls, logs |-> logs]>>
    /\ dry_run' = FALSE
    /\ tags_map' = TagsMap(all_tags)
    /\ all_tags' = DelTags(all_tags)
    /\ manifests_checked' = NewManifestsChecked(manifests_checked)
    /\ tag_i' = 1
    /\ calls' = <<>>
    /\ logs' = <<>>
    /\ UNCHANGED <<token, past_days, time_range, pc, exception,
                   processed_repos_counter, repo_next_page, repos, repo_i,
                   tag_next_page, retry_count, listed, repo_requests, last_listing,
                   page_requests>>

NextModes ==
    \/ RemoveTagsIter
    \/ RemoveTagsInExecuteMode
    \/ RemoveTagsReturn

SpecModes == InitModes /\ [][NextModes]_vars

(***************************************************************************)
(* One repository under a time range: main was started with                *)
(* --in-past-days WindowDays, and process_repositories calls get_quay_tags *)
(* for the first repository of the run.                                    *)
(***************************************************************************)
WindowDays == 1

InitWindow ==
    /\ token = Some("1234")
    /\ dry_run \in BOOLEAN
    /\ past_days = Some(WindowDays)
    /\ time_range = TimeRangePastDays(WindowDays)
    /\ pc = "get_quay_tags"
    /\ exception = NoException
    /\ processed_repos_counter = 1
    /\ repo_next_page = None
    /\ repos = <<1>>
    /\ repo_i = 1
    /\ tag_next_page = None
    /\ all_tags = <<>>
    /\ retry_count = 0
    /\ tags_map = <<>>
    /\ manifests_checked = {}
    /\ tag_i = 0
    /\ calls = <<>>
    /\ logs = <<>>
    /\ listed = <<>>
    /\ repo_requests = 1
    /\ last_listing = None
    /\ page_requests = 0
    /\ reports = <<>>
    /\ repo_listing = <<RepoAnswer(None, 200, <<1>>, None)>>
    /\ previous_checked = {}
    /\ retry = 0
    /\ all_notifications = <<>>
    /\ notification_i = 0

NextWindow ==
    \/ GetQuayTags
    \/ RemoveTagsIter
    \/ RemoveTagsReturn

SpecWindow == InitWindow /\ [][NextWindow]_vars

(***************************************************************************)
(* Vocabulary of the properties.                                           *)
(***************************************************************************)
\* the positions of calls that are deletes of the tag name
Deletes(name) ==
    {i \in 1..Len(calls) : calls[i].op = "delete_image_tag" /\ calls[i].arg = name}

\* the positions of calls that are manifest checks of digest
Checks(digest) ==
    {i \in 1..Len(calls) : calls[i].op = "manifest_exists" /\ calls[i].arg = digest}

\* the tag name is reported for removal by a log line
Reported(name) == \E i \in 1..Len(logs) : logs[i].tag = name

\* digest is the manifest digest of a tag of the snapshot
InSnapshotDigests(digest) ==
    \E j \in 1..Len(all_tags) : all_tags[j].manifest_digest = digest

\* the positions of the snapshot holding tags named sha256-<hex>.<suffix>
ArtifactPositions ==
    {i \in 1..Len(all_tags) : TagRegexMatches(all_tags[i].name)}

\* the loop of remove_tags has run through every tag of the snapshot
PassComplete == pc = "remove_tags" /\ tag_i > Len(tags_map)

\* a call answered with an error other than not-found
Failed(call) == call.status \notin {200, 204, 404}

(***************************************************************************)
(* C1: a tag sha256-<hex>.<suffix> whose target sha256:<hex> is the        *)
(* manifest digest of a tag of the snapshot is never deleted and never     *)
(* reported for removal, in dry-run and in execute mode, whatever the      *)
(* registry answers.                                                       *)
(***************************************************************************)
C1_ReferencedTargetKept ==
    \A i \in ArtifactPositions :
        InSnapshotDigests(TargetDigest(all_tags[i].name))
            => /\ Deletes(all_tags[i].name) = {}
               /\ ~Reported(all_tags[i].name)

\* a pass in execute mode has gone through a snapshot that holds an artifact
\* tag with a referenced target, and has deleted another tag
C1_Witness ==
    /\ PassComplete
    /\ ~dry_run
    /\ \E i \in ArtifactPositions : InSnapshotDigests(TargetDigest(all_tags[i].name))
    /\ calls # <<>>

ConfirmedOrphans ==
    {i \in ArtifactPositions :
        /\ ~InSnapshotDigests(TargetDigest(all_tags[i].name))
        /\ \E j \in Checks(TargetDigest(all_tags[i].name)) : calls[j].status = 404}

\* the pass is over: remove_tags has run through the snapshot or has raised
PassOver == PassComplete \/ pc = "raised"

\* C3 as claimed: in execute mode every artifact tag whose target is the
\* digest of no tag of the snapshot and is confirmed absent has received
\* exactly one delete call when the pass is over
C3_AsClaimed ==
    (~dry_run /\ PassOver)
        => \A i \in ConfirmedOrphans : Cardinality(Deletes(all_tags[i].name)) = 1

\* C3 as amended: in execute mode every such tag that the pass has gone
\* through has received exactly one delete call, so that a pass that returns
\* has issued exactly N delete calls for N such tags; and none has received
\* more than one
C3_OneDeletePerOrphan ==
    ~dry_run
        => /\ \A i \in ConfirmedOrphans :
                 /\ Cardinality(Deletes(all_tags[i].name)) <= 1
                 /\ i < tag_i => Cardinality(Deletes(all_tags[i].name)) = 1
           /\ PassComplete
                 => Cardinality({j \in 1..Len(calls) :
                                    /\ calls[j].op = "delete_image_tag"
                                    /\ TagRegexMatches(calls[j].arg)})
                        = Cardinality(ConfirmedOrphans)

\* a pass in execute mode has returned after deleting two artifact tags that
\* share one target digest
C3_Witness ==
    /\ PassComplete
    /\ ~dry_run
    /\ \E i, k \in ConfirmedOrphans :
          /\ i # k
          /\ TargetDigest(all_tags[i].name) = TargetDigest(all_tags[k].name)
          /\ Cardinality(Deletes(all_tags[i].name)) = 1
          /\ Cardinality(Deletes(all_tags[k].name)) = 1

(***************************************************************************)
(* C4: within one pass manifest_exists is called at most once for each     *)
(* digest, whatever the first answer was.                                  *)
(***************************************************************************)
C4_AtMostOneCheckPerDigest ==
    \A i, j \in 1..Len(calls) :
        (/\ calls[i].op = "manifest_exists"
         /\ calls[j].op = "manifest_exists"
         /\ calls[i].arg = calls[j].arg) => i = j

\* a pass has gone through two artifact tags that share one unreferenced
\* target, whose manifest the one check found to exist
C4_Witness ==
    /\ PassComplete
    /\ \E i, k \in ArtifactPositions :
          /\ i # k
          /\ TargetDigest(all_tags[i].name) = TargetDigest(all_tags[k].name)
          /\ \E j \in Checks(TargetDigest(all_tags[i].name)) : calls[j].status = 200

(***************************************************************************)
(* C5: manifest_exists is never called for a digest that is the manifest   *)
(* digest of a tag of the snapshot.                                        *)
(***************************************************************************)
C5_NoCheckOfReferencedDigest ==
    \A i \in 1..Len(calls) :
        calls[i].op = "manifest_exists" => ~InSnapshotDigests(calls[i].arg)

\* a pass has gone through an artifact tag with a referenced target and
\* through one with an unreferenced target, which it checked
C5_Witness ==
    /\ PassComplete
    /\ \E i, k \in ArtifactPositions :
          /\ InSnapshotDigests(TargetDigest(all_tags[i].name))
          /\ Checks(TargetDigest(all_tags[k].name)) # {}

(***************************************************************************)
(* C6: in dry-run mode no delete call is issued for any tag of any         *)
(* repository of a run, neither for an artifact tag nor for a deprecated   *)
(* .src tag.                                                               *)
(***************************************************************************)
C6_DryRunNeverDeletes ==
    dry_run => \A i \in 1..Len(calls) : calls[i].op # "delete_image_tag"

\* a dry run has ended after its second repository, in which it reported an
\* artifact tag and a deprecated .src tag for removal
C6_Witness ==
    /\ dry_run
    /\ pc = "done"
    /\ processed_repos_counter = 2
    /\ \E i, j \in 1..Len(logs) :
          /\ logs[i].msg = "should be removed"
          /\ logs[j].msg = "Removing deprecated tag"

(***************************************************************************)
(* C7: a dry run issues no request other than the listings: when the       *)
(* one page of repositories holds one repository whose tags are latest and *)
(* the orphan sha256-b1.sbom, the run ends without any request besides the *)
(* repository listing and the tag listing, and with the tag reported as    *)
(* "should be removed".  The listing requests are not in calls: the        *)
(* requests of the run are the one repository listing, the tag listing and *)
(* those of calls.                                                         *)
(***************************************************************************)
C7_DryRunOnlyLists ==
    (/\ dry_run
     /\ pc = "done"
     /\ repo_requests = 1
     /\ processed_repos_counter = 1
     /\ Len(listed) = 2
     /\ listed[1].name = NameLatest
     /\ listed[2].name = Sha256Dash \o <<"b", "1">> \o DotSbom
     /\ all_tags = <<TagInfo(listed[1]), TagInfo(listed[2])>>)
        => /\ calls = <<>>
           /\ logs = <<Log("should be removed", listed[2].name)>>

(***************************************************************************)
(* C8.                                                                     *)
(***************************************************************************)
\* the last manifest check or delete of the repository at hand failed with
\* an error other than not-found
LastCallFailed == calls # <<>> /\ Failed(calls[Len(calls)])

\* repositories follow the one at hand in the run
RepositoriesFollow == repo_i < Len(repos) \/ repo_next_page # None

C9_FailedDeleteIsLast ==
    \A i \in 1..Len(calls) :
        (calls[i].op = "delete_image_tag" /\ Failed(calls[i]))
            => /\ i = Len(calls)
               /\ pc = "raised"
               /\ exception.where = "delete_image_tag"
               /\ Cardinality(Deletes(calls[i].arg)) = 1

\* the delete of a tag has failed with 500 while tags of the snapshot remain
C9_Witness ==
    /\ calls # <<>>
    /\ calls[Len(calls)].op = "delete_image_tag"
    /\ calls[Len(calls)].status = 500
    /\ tag_i < Len(tags_map)
    /\ \E k \in (tag_i + 1)..Len(tags_map) : TagRegexMatches(tags_map[k][1])

(***************************************************************************)
(* C10: a delete answered 404 is a success: delete_image_tag returns and   *)
(* the loop of remove_tags moves on to the tags after the one deleted.     *)
(***************************************************************************)
C10_NotFoundDeleteIsSuccess ==
    (calls # <<>> /\ calls[Len(calls)].op = "delete_image_tag"
                  /\ calls[Len(calls)].status = 404)
        => /\ pc # "raised"
           /\ exception = NoException
           /\ \E k \in 1..Len(tags_map) :
                 tags_map[k][1] = calls[Len(calls)].arg /\ tag_i > k

\* after a delete answered 404 the pass has deleted a later tag
C10_Witness ==
    \E i, j \in 1..Len(calls) :
        /\ i < j
        /\ calls[i].op = "delete_image_tag"
        /\ calls[i].status = 404
        /\ calls[j].op = "delete_image_tag"
        /\ calls[j].status = 204

(***************************************************************************)
(* C11: a tag whose name ends with .src and does not match                 *)
(* sha256-<hex>.<suffix> is deleted if and only if its name without .src   *)
(* is not a tag name of the snapshot, or it is and the name                *)
(* sha256-<hex of the digest of that binary tag>.src is a tag name of the  *)
(* snapshot too; otherwise it is kept.  A dry run reports the tag in the   *)
(* same cases instead of deleting it.                                      *)
(***************************************************************************)
\* the tag names of the snapshot
SnapshotNames == {all_tags[i].name : i \in 1..Len(all_tags)}

\* the positions of the snapshot holding tags that end with .src and are not
\* named sha256-<hex>.<suffix>
LegacySrcPositions ==
    {i \in 1..Len(all_tags) :
        /\ EndsWith(all_tags[i].name, DotSrc)
        /\ ~TagRegexMatches(all_tags[i].name)}

\* the name of the source tag of the image with the digest sha256:<hex>
CanonicalSrcName(digest) ==
    Sha256Dash \o SubSeq(digest, Len(Sha256Colon) + 1, Len(digest)) \o DotSrc

\* the legacy .src tag at position i has no binary tag in the snapshot, or has
\* one whose canonical source tag is in the snapshot as well
LegacyRedundant(i) ==
    LET binary == SubSeq(all_tags[i].name, 1, Len(all_tags[i].name) - Len(DotSrc))
    IN  \/ binary \notin SnapshotNames
        \/ \E j \in 1..Len(all_tags) :
              /\ all_tags[j].name = binary
              /\ CanonicalSrcName(all_tags[j].manifest_digest) \in SnapshotNames

C11_LegacySrcDeletedIffRedundant ==
    \A i \in LegacySrcPositions :
        LET name == all_tags[i].name
        IN  /\ Deletes(name) # {} => (~dry_run /\ LegacyRedundant(i))
            /\ Reported(name) => LegacyRedundant(i)
            /\ (i < tag_i /\ LegacyRedundant(i))
                  => /\ Reported(name)
                     /\ ~dry_run => Cardinality(Deletes(name)) = 1

\* a pass in execute mode has deleted a legacy .src tag whose binary tag and
\* canonical source tag are both in the snapshot
C11_Witness ==
    /\ PassComplete
    /\ ~dry_run
    /\ \E i \in LegacySrcPositions :
          /\ SubSeq(all_tags[i].name, 1, Len(all_tags[i].name) - Len(DotSrc))
                \in SnapshotNames
          /\ Deletes(all_tags[i].name) # {}

(***************************************************************************)
(* C12: the iteration of remove_tags over a tag that ends with .src and    *)
(* is not named sha256-<hex>.<suffix> issues no manifest check and leaves  *)
(* manifests_checked as it is, whatever it decides.                        *)
(***************************************************************************)
\* the loop of remove_tags is at a legacy .src tag
LegacySrcAtHand ==
    /\ pc = "remove_tags"
    /\ tag_i <= Len(tags_map)
    /\ EndsWith(tags_map[tag_i][1], DotSrc)
    /\ ~TagRegexMatches(tags_map[tag_i][1])

C12_LegacyRuleNeverChecks ==
    [][LegacySrcAtHand
          => /\ manifests_checked' = manifests_checked
             /\ \A k \in (Len(calls) + 1)..Len(calls') :
                   calls'[k].op # "manifest_exists"]_vars

\* a pass has deleted a legacy .src tag after a manifest check for another
\* tag, whose answer is still in manifests_checked
C12_Witness ==
    /\ PassComplete
    /\ manifests_checked # {}
    /\ \E i \in LegacySrcPositions : Deletes(all_tags[i].name) # {}

(***************************************************************************)
(* C13: under a time range, a tag listed with a start_ts outside           *)
(* [to_ts, from_ts] is never deleted and never reported for removal,       *)
(* neither as an artifact tag nor as a legacy .src tag.                    *)
(***************************************************************************)
\* the listed tag is created within the time range of the run
InWindow(tag) ==
    /\ Get(time_range).to_ts <= tag.start_ts
    /\ tag.start_ts <= Get(time_range).from_ts

C13_OutOfWindowTagKept ==
    time_range # None
        => \A i \in 1..Len(listed) :
               ~InWindow(listed[i])
                   => /\ Deletes(listed[i].name) = {}
                      /\ ~Reported(listed[i].name)

\* the listing held a tag within the time range, which was deleted, and then
\* a legacy .src tag older than the time range, which was not
C13_Witness ==
    /\ time_range # None
    /\ pc = "process_repositories"
    /\ \E i, j \in 1..Len(listed) :
          /\ i < j
          /\ InWindow(listed[i])
          /\ Deletes(listed[i].name) # {}
          /\ listed[j].start_ts < Get(time_range).to_ts
          /\ EndsWith(listed[j].name, DotSrc)

(***************************************************************************)
(* C14: when the registry lists the tags newest first, get_quay_tags       *)
(* returns exactly the listed tags whose start_ts lies in                  *)
(* [to_ts, from_ts], in the order listed: no tag within the time range is  *)
(* dropped.                                                                *)
(***************************************************************************)
\* the tags listed so far are ordered newest first
NewestFirst ==
    \A i, j \in 1..Len(listed) : i < j => listed[i].start_ts >= listed[j].start_ts

\* the tags among the first n listed that are within the time range
RECURSIVE ListedInWindow(_)
ListedInWindow(n) ==
    IF n = 0 THEN <<>>
    ELSE IF InWindow(listed[n])
         THEN Append(ListedInWindow(n - 1), TagInfo(listed[n]))
         ELSE ListedInWindow(n - 1)

\* get_quay_tags has returned after an answer with status 200
ListingReturned ==
    /\ pc \in {"remove_tags", "process_repositories"}
    /\ last_listing # None
    /\ Get(last_listing).op = "get_quay_tags"
    /\ Get(last_listing).status = 200

C14_WindowedListingComplete ==
    (time_range # None /\ ListingReturned /\ NewestFirst)
        => all_tags = ListedInWindow(Len(listed))

(***************************************************************************)
(* C15: when a page of the tag listing of a repository answers 404,        *)
(* get_quay_tags returns an empty list without raising, the tags of the    *)
(* pages read before are dropped, no manifest check and no delete is       *)
(* issued for the repository, and the run goes on with the repository      *)
(* after it.                                                               *)
(***************************************************************************)
\* the last listing request was one of a page of tags answered with status
TagListingAnswered(status) ==
    /\ last_listing # None
    /\ Get(last_listing).op = "get_quay_tags"
    /\ Get(last_listing).status = status

C15_NotFoundListingSkipsRepository ==
    TagListingAnswered(404)
        => /\ all_tags = <<>>
           /\ calls = <<>>
           /\ logs = <<>>
           /\ exception = NoException
           /\ pc \in {"process_repositories", "fetch_image_repos", "done"}
           /\ (pc = "process_repositories" /\ repo_i <= Len(repos))
                 => ENABLED StartRepository

\* the second page of the tags of the first of two repositories has answered
\* 404 after a first page that listed a legacy .src tag
C15_Witness ==
    /\ TagListingAnswered(404)
    /\ Get(last_listing).arg = 2
    /\ \E i \in 1..Len(listed) : EndsWith(listed[i].name, DotSrc)
    /\ pc = "process_repositories"
    /\ repo_i = 2
    /\ Len(repos) = 2

(***************************************************************************)
(* C16: an HTTP error answered to the repository listing, or to a tag      *)
(* listing unless it is a 404 or a 502/504 that is retried, is raised out  *)
(* of main as an HTTPError and ends the run: no repository is listed,      *)
(* checked or pruned after it.                                             *)
(***************************************************************************)
\* the last listing request was answered with an HTTP error other than a
\* not-found of a tag listing
ListingFailed ==
    /\ last_listing # None
    /\ UrlopenRaises(Get(last_listing).status)
    /\ ~TagListingAnswered(404)

C16_ListingFailureEndsRun ==
    ListingFailed
        => \/ /\ TagListingAnswered(502) \/ TagListingAnswered(504)
              /\ pc = "get_quay_tags"
              /\ exception = NoException
           \/ /\ pc = "raised"
              /\ exception.type = "HTTPError"
              /\ exception.status = Get(last_listing).status
              /\ exception.where = Get(last_listing).op
              /\ ~ENABLED Next

\* the tag listing of the first of two repositories has answered 500
C16_Witness ==
    /\ TagListingAnswered(500)
    /\ pc = "raised"
    /\ repo_i = 1
    /\ Len(repos) = 2

(***************************************************************************)
(* C17: a page of tags that answers 502/504 again and again is requested   *)
(* at most RETRY_LIMIT + 1 times, the last of which raises the gateway     *)
(* error.                                                                  *)
(***************************************************************************)
C17_AtMostRetryLimitRetries ==
    (TagListingAnswered(502) \/ TagListingAnswered(504))
        => /\ page_requests <= RETRY_LIMIT + 1
           /\ page_requests = RETRY_LIMIT + 1 => pc = "raised"

(***************************************************************************)
(* C18: manifest_exists answers False when the registry answers 404 and    *)
(* True when it answers 200 or 204; any other answer is raised out of      *)
(* remove_tags, as an HTTPError if it is an HTTP error, the tag at hand is *)
(* neither deleted nor reported, and manifests_checked gets no entry for   *)
(* the digest.                                                             *)
(***************************************************************************)
C18_ManifestExistsAnswers ==
    \A j \in 1..Len(calls) :
        calls[j].op = "manifest_exists"
            => LET digest == calls[j].arg
                   status == calls[j].status
               IN  /\ status = 404 => <<digest, FALSE>> \in manifests_checked
                   /\ status \in {200, 204} => <<digest, TRUE>> \in manifests_checked
                   /\ status \notin {200, 204, 404}
                         => /\ j = Len(calls)
                            /\ pc = "raised"
                            /\ exception.where = "manifest_exists"
                            /\ exception.status = status
                            /\ UrlopenRaises(status) => exception.type = "HTTPError"
                            /\ \A e \in manifests_checked : e[1] # digest
                            /\ TargetDigest(tags_map[tag_i][1]) = digest
                            /\ Deletes(tags_map[tag_i][1]) = {}
                            /\ ~Reported(tags_map[tag_i][1])

\* a manifest check has answered 500 after the check of another digest that
\* answered 204
C18_Witness ==
    /\ pc = "raised"
    /\ calls[Len(calls)].op = "manifest_exists"
    /\ calls[Len(calls)].status = 500
    /\ \E i \in 1..Len(calls) :
          calls[i].op = "manifest_exists" /\ calls[i].status = 204

(***************************************************************************)
(* C19: for a repository whose tag listing is empty, or holds no tag named *)
(* sha256-<hex>.<suffix> and no tag ending with .src, no manifest check    *)
(* and no delete is issued, and no tag is reported.                        *)
(***************************************************************************)
\* none of the tags listed for the repository at hand is of a known type
NoKnownTypeListed ==
    \A i \in 1..Len(listed) :
        /\ ~TagRegexMatches(listed[i].name)
        /\ ~EndsWith(listed[i].name, DotSrc)

C19_NothingToPruneNoRequest ==
    NoKnownTypeListed => calls = <<>> /\ logs = <<>>

\* remove_tags has gone in execute mode through the two tags of a
\* repository, neither of a known type, after a repository with no tag
C19_Witness ==
    /\ ~dry_run
    /\ pc = "process_repositories"
    /\ processed_repos_counter = 2
    /\ Len(listed) = 2
    /\ NoKnownTypeListed
    /\ Len(tags_map) = 2
    /\ tag_i = 3

SnapshotDecision(i) ==
    IF i \in ArtifactPositions THEN i \in ConfirmedOrphans
    ELSE IF i \in LegacySrcPositions THEN LegacyRedundant(i)
    ELSE FALSE

C21_DecisionFromSnapshotOnly ==
    \A i \in 1..Len(all_tags) :
        LET decided == SnapshotDecision(i)
            reported == Reported(all_tags[i].name)
            deleted == Deletes(all_tags[i].name) # {}
        IN  /\ (deleted \/ reported) => decided
            /\ (i < tag_i /\ decided) => (reported /\ (~dry_run => deleted))

\* a pass has deleted a tag and has then kept the legacy .src tag of which
\* the deleted tag is the binary tag
C21_Witness ==
    /\ PassComplete
    /\ \E j, i \in 1..Len(all_tags) :
          /\ j < i
          /\ Deletes(all_tags[j].name) # {}
          /\ i \in LegacySrcPositions
          /\ all_tags[i].name = all_tags[j].name \o DotSrc
          /\ Deletes(all_tags[i].name) = {}

(***************************************************************************)
(* C22: manifests_checked lives for one repository: an artifact tag whose  *)
(* target is the digest of no tag of its repository is decided by a        *)
(* manifest check made for that repository, one for each such digest,      *)
(* whatever a check of the same digest answered for the repository before. *)
(***************************************************************************)
C22_CacheOfOneRepository ==
    \A i \in ArtifactPositions :
        LET name == all_tags[i].name
            target == TargetDigest(name)
        IN  (i < tag_i /\ ~InSnapshotDigests(target))
                => /\ Cardinality(Checks(target)) = 1
                   /\ Reported(name) <=> \E j \in Checks(target) : calls[j].status = 404

\* in the second repository a tag was kept after the check of its target
\* answered that the manifest exists, while the check of the same digest for
\* the first repository had answered not-found
C22_Witness ==
    /\ processed_repos_counter = 2
    /\ pc = "process_repositories"
    /\ \E i \in ArtifactPositions :
          /\ i < tag_i
          /\ <<TargetDigest(all_tags[i].name), FALSE>> \in previous_checked
          /\ <<TargetDigest(all_tags[i].name), TRUE>> \in manifests_checked
          /\ ~Reported(all_tags[i].name)

(***************************************************************************)
(* C25: in execute mode the delete requests of a pass are issued in the    *)
(* order in which the deleted tags stand in the tag listing, and no tag is *)
(* deleted more than once.                                                 *)
(***************************************************************************)
\* the position in the tag listing of the tag called name
ListedPosition(name) == CHOOSE i \in 1..Len(listed) : listed[i].name = name

C25_DeletesInListingOrder ==
    \A i, j \in 1..Len(calls) :
        (/\ i < j
         /\ calls[i].op = "delete_image_tag"
         /\ calls[j].op = "delete_image_tag")
            => /\ calls[i].arg \in Names(listed)
               /\ calls[j].arg \in Names(listed)
               /\ ListedPosition(calls[i].arg) < ListedPosition(calls[j].arg)

\* a pass has deleted the three tags of its snapshot, the first a legacy .src
\* tag and another an artifact tag
C25_Witness ==
    /\ PassComplete
    /\ ~dry_run
    /\ Len(listed) = 3
    /\ LegacySrcPositions # {}
    /\ ArtifactPositions # {}
    /\ 1 \in LegacySrcPositions
    /\ \A i \in 1..Len(listed) : Deletes(listed[i].name) # {}

(***************************************************************************)
(* C23: when QUAY_TOKEN is unset or empty, main of the pruner and main of  *)
(* the notification resetter raise ValueError before any HTTP request is   *)
(* issued: once main has looked at the token the run is over with          *)
(* ValueError, and no repository listing, no listing of a repository and   *)
(* no other request has been made.                                         *)
(***************************************************************************)
C23_MissingTokenRaisesBeforeAnyRequest ==
    (/\ token = None \/ Get(token) = ""
     /\ pc \notin {"main", "reset_notifications.main"})
        => /\ pc = "raised"
           /\ exception.type = "ValueError"
           /\ repo_requests = 0
           /\ repo_listing = <<>>
           /\ last_listing = None
           /\ calls = <<>>

\* main of the notification resetter has raised ValueError for an empty token
C23_Witness ==
    /\ token = Some("")
    /\ pc = "raised"
    /\ exception = [type |-> "ValueError", status |-> 0,
                    where |-> "reset_notifications.main"]

\* the answers with status 200 among the answers to the repository listing
Answered == SelectSeq(repo_listing, LAMBDA a : a.status = 200)

\* the next_page token of the last page answered before request k
TokenBefore(k) ==
    LET before == SelectSeq(SubSeq(repo_listing, 1, k - 1), LAMBDA a : a.status = 200)
    IN  IF before = <<>> THEN None ELSE before[Len(before)].next_page

RECURSIVE RepositoriesIn(_)
\* the number of repositories of a sequence of answered pages
RepositoriesIn(pages) ==
    IF pages = <<>>
    THEN 0
    ELSE Len(pages[1].repositories) + RepositoriesIn(Tail(pages))

\* fetch_image_repos is about to request a page, or has returned
BetweenPages ==
    pc \in {"fetch_image_repos", "reset_notifications.fetch_image_repos", "done"}

(***************************************************************************)
(* C24: fetch_image_repos (both programs) yields each non-empty page of    *)
(* repositories in the order received (the page at hand of                 *)
(* process_repositories is the last page answered, and every repository of *)
(* the pages answered before has been processed when the next page is      *)
(* requested), requests a page with the next_page token of the previous    *)
(* answered page, and stops after a page without next_page or with no      *)
(* repositories (no request follows such a page, and the run ends normally *)
(* only after one); when the first page is empty nothing is yielded and no *)
(* per-repository request is made.                                         *)
(***************************************************************************)
C24_RepositoryPagination ==
    /\ \A k \in 1..Len(repo_listing) : repo_listing[k].asked = TokenBefore(k)
    /\ \A k \in 1..(Len(repo_listing) - 1) :
           repo_listing[k].status = 200
               => /\ repo_listing[k].repositories # <<>>
                  /\ repo_listing[k].next_page # None
    /\ IF Answered = <<>> \/ Answered[Len(Answered)].repositories = <<>>
       THEN pc \notin {"process_repositories", "reset_notifications.process_repositories",
                       "get_quay_tags", "remove_tags", "get_quay_notifications",
                       "process_notifications"}
       ELSE repos = Answered[Len(Answered)].repositories
    /\ processed_repos_counter <= RepositoriesIn(Answered)
    /\ BetweenPages => processed_repos_counter = RepositoriesIn(Answered)
    /\ pc = "done"
           => /\ repo_listing # <<>>
              /\ repo_listing[Len(repo_listing)].status = 200
              /\ \/ repo_listing[Len(repo_listing)].repositories = <<>>
                 \/ repo_listing[Len(repo_listing)].next_page = None
    /\ (Len(Answered) = 1 /\ Answered[1].repositories = <<>>)
           => /\ pc = "done"
              /\ processed_repos_counter = 0
              /\ repos = <<>>
              /\ calls = <<>>
              /\ last_listing # None
              /\ Get(last_listing).op = "fetch_image_repos"

\* the resetter has been answered two pages, the second asked for with the
\* token of the first, has processed the repository of each, and has returned
C24_Witness ==
    /\ pc = "done"
    /\ retry = 0
    /\ Len(repo_listing) = 2
    /\ repo_listing[1].next_page # None
    /\ repo_listing[2].asked = repo_listing[1].next_page
    /\ repo_listing[2].repositories # <<>>
    /\ processed_repos_counter = 2
    /\ all_notifications # <<>>

\* the reset requests issued for a notification of the repository at hand
Resets(uuid) ==
    {k \in 1..Len(calls) : calls[k].op = "reset_notification" /\ calls[k].arg = uuid}

\* the notifications of the repository at hand whose iteration is over
ProcessedNotifications ==
    IF pc \in {"process_notifications", "raised"}
           \/ (pc \in {"reset_notifications.process_repositories",
                        "reset_notifications.fetch_image_repos", "done"}
               /\ notification_i > 0)
    THEN 1..(notification_i - 1)
    ELSE {}

\* the lines logged with a message for a notification
Logged(msg, uuid) == {k \in 1..Len(logs) : logs[k] = Log(msg, uuid)}

(***************************************************************************)
(* C26: the notification resetter issues a reset POST for a notification   *)
(* if and only if its number_of_failures is greater than 0 (a missing      *)
(* count is treated as 0) and the run is not a dry run: every POST is for  *)
(* a listed notification with failures in a run that is not a dry run,     *)
(* each notification whose iteration is over has one POST if it has        *)
(* failures and the run is not a dry run and none otherwise, and no        *)
(* notification has more than one.                                         *)
(***************************************************************************)
C26_ResetIffFailures ==
    /\ \A k \in 1..Len(calls) :
           calls[k].op = "reset_notification"
               => /\ ~dry_run
                  /\ \E i \in 1..Len(all_notifications) :
                        /\ all_notifications[i].uuid = calls[k].arg
                        /\ all_notifications[i].number_of_failures # None
                        /\ Get(all_notifications[i].number_of_failures) > 0
    /\ \A i \in 1..Len(all_notifications) :
           /\ Cardinality(Resets(all_notifications[i].uuid)) <= 1
           /\ i \in ProcessedNotifications
                  => Cardinality(Resets(all_notifications[i].uuid)) =
                        IF /\ all_notifications[i].number_of_failures # None
                           /\ Get(all_notifications[i].number_of_failures) > 0
                           /\ ~dry_run
                        THEN 1
                        ELSE 0

\* a run that is not a dry run has gone through a notification without a
\* count of failures and one with two failures: one POST, for the second
C26_Witness ==
    /\ ~dry_run
    /\ pc = "process_notifications"
    /\ Len(all_notifications) = 2
    /\ notification_i = 3
    /\ all_notifications[1].number_of_failures = None
    /\ all_notifications[2].number_of_failures = Some(2)
    /\ calls = <<Call("reset_notification", all_notifications[2].uuid, 204)>>

(***************************************************************************)
(* C27: in dry-run mode the notification resetter issues no reset POST:    *)
(* its only requests are the repository listing and the notification       *)
(* listing of each repository, and each notification with failures is      *)
(* reported as "should be reset" (once, and never as "was reset").         *)
(***************************************************************************)
C27_DryRunResetsNothing ==
    dry_run
        => /\ calls = <<>>
           /\ last_listing # None
                  => Get(last_listing).op \in {"fetch_image_repos", "get_quay_notifications"}
           /\ \A k \in 1..Len(logs) : logs[k].msg \in {"should be reset", "has no failures"}
           /\ \A i \in ProcessedNotifications :
                  Cardinality(Logged("should be reset", all_notifications[i].uuid)) =
                      IF NumberOfFailures(all_notifications[i]) > 0 THEN 1 ELSE 0

\* a dry run has gone through a notification without failures and one with
\* failures of the second repository
C27_Witness ==
    /\ dry_run
    /\ processed_repos_counter = 2
    /\ pc = "process_notifications"
    /\ Len(all_notifications) = 2
    /\ notification_i = 3
    /\ NumberOfFailures(all_notifications[1]) = 0
    /\ NumberOfFailures(all_notifications[2]) = 2
    /\ logs = <<Log("has no failures", all_notifications[1].uuid),
                Log("should be reset", all_notifications[2].uuid)>>

\* the error bodies whose detail starts with "No repository notification found"
NotFoundBodies ==
    {b \in ErrorBodies :
        b.json /\ b.detail # None /\ StartsWith(Get(b.detail), NoNotificationFound)}

(***************************************************************************)
(* C28: a reset call answered with "notification not found" (HTTP 400      *)
(* whose detail starts with "No repository notification found") is logged  *)
(* and is not fatal: reset_notification logs "was not found" and returns   *)
(* normally, and in a run the iteration of a notification so answered is   *)
(* over with the loop advanced to the remaining notifications: the answer  *)
(* was 400, and an exception that ends the run comes from a later request. *)
(***************************************************************************)
C28_NotFoundResetIsNotFatal ==
    /\ \A uuid \in {UuidFoo, UuidBar}, body \in NotFoundBodies :
           reset_notification(uuid, 400, body) =
               Effect(<<Log("was not found", uuid)>>, NoException)
    /\ \A k \in 1..Len(logs) :
           logs[k].msg = "was not found"
               => \E i \in 1..Len(all_notifications) :
                     /\ all_notifications[i].uuid = logs[k].tag
                     /\ i < notification_i
                     /\ \E c \in Resets(logs[k].tag) : calls[c].status = 400
                     /\ pc \in {"process_notifications",
                                "reset_notifications.process_repositories",
                                "reset_notifications.fetch_image_repos",
                                "done", "raised"}
                     /\ pc = "raised" => exception.where # "get_quay_notifications"

\* the reset of the first notification of a repository was answered "not
\* found"; the second notification has been reset since, and a repository of
\* the page is left to process
C28_Witness ==
    /\ pc = "process_notifications"
    /\ Len(all_notifications) = 2
    /\ notification_i = 3
    /\ repo_i < Len(repos)
    /\ calls = <<Call("reset_notification", all_notifications[1].uuid, 400),
                 Call("reset_notification", all_notifications[2].uuid, 204)>>
    /\ logs = <<Log("was not found", all_notifications[1].uuid),
                Log("was reset", all_notifications[1].uuid),
                Log("was reset", all_notifications[2].uuid)>>

(***************************************************************************)
(* C29: when a reset call fails with an HTTP error that is not             *)
(* "notification not found", the failure is propagated: main of the        *)
(* notification resetter raises HTTPError.  The code catches every         *)
(* HTTPError in reset_notification, logs a warning and returns.            *)
(***************************************************************************)
C29_ResetFailurePropagates ==
    \A k \in 1..Len(calls) :
        (/\ calls[k].op = "reset_notification"
         /\ UrlopenRaises(calls[k].status)
         /\ Logged("was not found", calls[k].arg) = {})
            => /\ pc = "raised"
               /\ exception.type = "HTTPError"

(***************************************************************************)
(* C30: when every repository-listing request of the notification resetter *)
(* fails with an HTTP error, main raises HTTPError.  The code raises       *)
(* RuntimeError(ex) after the last retry.                                  *)
(***************************************************************************)
C30_ListingFailureRaisesHTTPError ==
    (/\ pc = "raised"
     /\ repo_listing # <<>>
     /\ \A k \in 1..Len(repo_listing) : UrlopenRaises(repo_listing[k].status))
        => exception.type = "HTTPError"

(***************************************************************************)
(* C31: the legacy-source rule applies only to tag names that do not start *)
(* with sha256-: a tag whose name starts with sha256- is decided by the    *)
(* artifact rule (index lookup plus confirming check) or kept, and is      *)
(* never deleted by the legacy .src rule.  In the code a name that starts  *)
(* with sha256- and ends with .src without matching tag_regex falls        *)
(* through to the branch of line 220.                                      *)
(***************************************************************************)
C31_Sha256NeverByLegacyRule ==
    \A i \in 1..Len(all_tags) :
        (/\ StartsWith(all_tags[i].name, Sha256Dash)
         /\ Deletes(all_tags[i].name) # {} \/ Reported(all_tags[i].name))
            => i \in ConfirmedOrphans

\* the tag of the listing that is named name
ListedTag(name) == listed[CHOOSE j \in 1..Len(listed) : listed[j].name = name]

\* the listed tag is a legacy .src tag within the time range whose binary tag
\* is listed as well, created before the lower end of the time range, while
\* the canonical source tag of the binary tag is not listed
LegacySrcOfOlderBinary(tag) ==
    LET binary == RemoveSuffix(tag.name, DotSrc)
    IN  /\ EndsWith(tag.name, DotSrc)
        /\ ~TagRegexMatches(tag.name)
        /\ InWindow(tag)
        /\ binary \in Names(listed)
        /\ ListedTag(binary).start_ts < Get(time_range).to_ts
        /\ CanonicalSrcName(ListedTag(binary).manifest_digest) \notin Names(listed)

(***************************************************************************)
(* C32: with a time window, a legacy .src tag is deleted for the reason    *)
(* "binary tag absent" only when the repository has no active tag with the *)
(* stripped name: a legacy .src tag inside the window whose binary tag is  *)
(* active but was created before the window's lower bound is not deleted   *)
(* (and not reported).  In the code the binary tag is looked up in the     *)
(* tags of the window only.                                                *)
(***************************************************************************)
C32_WindowedLegacySrcKept ==
    time_range # None
        => \A i \in 1..Len(listed) :
               LegacySrcOfOlderBinary(listed[i])
                   => /\ Deletes(listed[i].name) = {}
                      /\ ~Reported(listed[i].name)

\* digest is the manifest digest of a listed tag created before the lower end
\* of the time range, and of no tag of the snapshot
ReferencedOutsideWindowOnly(digest) ==
    /\ ~InSnapshotDigests(digest)
    /\ \E j \in 1..Len(listed) :
          /\ listed[j].manifest_digest = digest
          /\ ~InWindow(listed[j])

(***************************************************************************)
(* C33: with a time window, a sha256-<hex>.<suffix> tag of the window      *)
(* whose target digest is the digest only of tags outside the window (so   *)
(* it is absent from the windowed snapshot) is not deleted and not         *)
(* reported, provided manifest_exists answers true for the manifest, which *)
(* an active tag still references: the tag is decided by the manifest      *)
(* check, one for the digest, once the loop has gone through it.           *)
(***************************************************************************)
C33_WindowedArtifactKeptByCheck ==
    time_range # None
        => \A i \in ArtifactPositions :
               LET name == all_tags[i].name
                   target == TargetDigest(name)
               IN  (/\ ReferencedOutsideWindowOnly(target)
                    /\ \A c \in Checks(target) : calls[c].status \in {200, 204})
                       => /\ Deletes(name) = {}
                          /\ ~Reported(name)
                          /\ i < tag_i => Cardinality(Checks(target)) = 1

\* in execute mode a pass over the tags of the window has kept an artifact
\* tag whose target is the digest of a tag older than the window, after the
\* manifest check answered that the manifest exists
C33_Witness ==
    /\ time_range # None
    /\ ~dry_run
    /\ PassComplete
    /\ \E i \in ArtifactPositions :
          /\ ReferencedOutsideWindowOnly(TargetDigest(all_tags[i].name))
          /\ \E j \in 1..Len(listed) :
                /\ listed[j].manifest_digest = TargetDigest(all_tags[i].name)
                /\ listed[j].start_ts < Get(time_range).to_ts
          /\ calls = <<Call("manifest_exists", TargetDigest(all_tags[i].name), 200)>>
          /\ logs = <<>>

(***************************************************************************)
(* C35: a failure to fetch the notifications of a single repository does   *)
(* not fail the resetter job: whatever non-success answer the notification *)
(* listing of one repository gives, that repository is skipped and the run *)
(* goes on.  In the code only an answer that is 2xx and not 200 is         *)
(* skipped; urlopen raises HTTPError for the others and nothing catches    *)
(* it.                                                                     *)
(***************************************************************************)
C35_NotificationListingFailureNotFatal ==
    (/\ last_listing # None
     /\ Get(last_listing).op = "get_quay_notifications"
     /\ Get(last_listing).status # 200)
        => /\ pc # "raised"
           /\ exception = NoException
           /\ all_notifications = <<>>
           /\ calls = <<>>

(***************************************************************************)
(* C36: fetch_image_repos of the notification resetter gives up on a page  *)
(* request (raising RuntimeError) only after that request has failed 6     *)
(* times in a row, however many failures were absorbed while fetching      *)
(* earlier pages.  In the code retry is never set back to 0.               *)
(***************************************************************************)
C36_GivesUpAfterSixFailuresInARow ==
    (/\ pc = "raised"
     /\ exception.type = "RuntimeError"
     /\ exception.where = "fetch_image_repos")
        => /\ Len(repo_listing) >= FetchRetries + 1
           /\ \A k \in (Len(repo_listing) - FetchRetries)..Len(repo_listing) :
                  /\ UrlopenRaises(repo_listing[k].status)
                  /\ repo_listing[k].asked = repo_listing[Len(repo_listing)].asked

(***************************************************************************)
(* C37: the notification resetter logs "was reset" for a notification only *)
(* when the reset POST for it succeeded (answer 201 or 204).  In the code  *)
(* the line is logged whenever reset_notification returns.                 *)
(***************************************************************************)
C37_WasResetOnlyAfterSuccess ==
    \A k \in 1..Len(logs) :
        logs[k].msg = "was reset"
            => \E c \in Resets(logs[k].tag) : calls[c].status \in {201, 204}

\* the manifest checks among the requests c, in the order issued
ManifestChecks(c) == SelectSeq(c, LAMBDA x : x.op = "manifest_exists")

\* the tags named by the log lines l, in the order logged
LoggedTags(l) == [i \in 1..Len(l) |-> l[i].tag]

\* the tags for which the pass at hand has issued a delete
DeletedTags ==
    {calls[i].arg : i \in {k \in 1..Len(calls) : calls[k].op = "delete_image_tag"}}

\* s is the beginning of t
IsPrefix(s, t) == Len(s) <= Len(t) /\ s = SubSeq(t, 1, Len(s))

(***************************************************************************)
(* C34: dry-run and execute mode decide identically: for the same snapshot *)
(* and the same manifest-existence answers, the set of tags a dry run      *)
(* reports for removal equals the set of tags for which execute mode       *)
(* issues a delete when every delete succeeds (the pass runs to its end),  *)
(* and both modes issue the same manifest_exists calls in the same order;  *)
(* while the execute pass runs, or when a delete ends it, its checks and   *)
(* deletes are a beginning of what the dry run checked and reported.       *)
(***************************************************************************)
C34_ModesDecideAlike ==
    (~dry_run /\ Len(reports) = 1)
        => LET dry == reports[1]
           IN  /\ IsPrefix(ManifestChecks(calls), dry.calls)
               /\ IsPrefix(LoggedTags(logs), LoggedTags(dry.logs))
               /\ DeletedTags = {logs[i].tag : i \in 1..Len(logs)}
               /\ PassComplete
                      => /\ ManifestChecks(calls) = dry.calls
                         /\ DeletedTags = {dry.logs[i].tag : i \in 1..Len(dry.logs)}

\* the execute pass has, after one manifest check, deleted an artifact tag
\* and a legacy .src tag, the two tags the dry run over the snapshot reported
C34_Witness ==
    /\ ~dry_run
    /\ Len(reports) = 1
    /\ PassComplete
    /\ Len(ManifestChecks(calls)) = 1
    /\ Cardinality(DeletedTags) = 2
    /\ \E i, j \in 1..Len(reports[1].logs) :
          /\ reports[1].logs[i].msg = "should be removed"
          /\ reports[1].logs[j].msg = "Removing deprecated tag"

====
